---- MODULE Spec2Model ----
(***************************************************************************)
(* BrewDeck data layer: the TTL cache (services/cache_manager.rs), the     *)
(* resilience executor (error.rs) and the data access facade               *)
(* (services/package_service.rs, services/brew_client.rs).                 *)
(*                                                                         *)
(* Strings are sequences of one-character strings, so that contains,       *)
(* starts_with, ends_with and format! are computed, not assumed.           *)
(* Time is a discrete clock `now`.  Option values are sequences of length  *)
(* at most one: <<>> is None and <<x>> is Some(x).                         *)
(***************************************************************************)
EXTENDS Integers, Sequences, FiniteSets, TLC

VARIABLES
    config,       \* CacheManager.config: default_ttl, max_entries, strategy
    storage,      \* CacheManager.storage: key -> CacheEntry (a partial map)
    now,          \* Utc::now()
    last,         \* the operation completed by the last step, with its result
    overflow_checks, \* the build panics on integer overflow (debug) or wraps
    retry,        \* one call of retry_with_backoff: its locals and its trace
    fb,           \* one call of with_fallback: its position and its trace
    svc,          \* one call of the facade (PackageService)
    pf,           \* PrefetchService: its fields and the activities in progress
    bg,           \* the tasks spawned by refresh_in_background
    rd,           \* concurrent calls of get_packages and the state of the local tool
    pending       \* the removals get and the sweep have decided and not yet made

cacheVars == <<config, storage, now, last>>

retryVars == <<overflow_checks, retry>>

vars == <<config, storage, now, last, overflow_checks, retry, fb, svc, pf, bg, rd, pending>>

-----------------------------------------------------------------------------
(* Bounds of the model *)

\* the clock runs from 0 to MaxTime
MaxTime == 2

\* access_count is followed up to MaxAccess reads of one entry
MaxAccess == 1

-----------------------------------------------------------------------------
(* Strings *)

Min(a, b) == IF a < b THEN a ELSE b

None == <<>>

Some(x) == <<x>>

IsPrefixAt(text, pat, i) ==
    /\ i + Len(pat) - 1 <= Len(text)
    /\ \A j \in 1..Len(pat) : text[i + j - 1] = pat[j]

\* str::starts_with
StartsWith(text, pat) == IsPrefixAt(text, pat, 1)

\* str::ends_with
EndsWith(text, pat) ==
    /\ Len(pat) <= Len(text)
    /\ IsPrefixAt(text, pat, Len(text) - Len(pat) + 1)

\* str::contains
Contains(text, pat) == \E i \in 1..(Len(text) + 1) : IsPrefixAt(text, pat, i)

\* the positions of '*' in a pattern
StarPositions(pattern) == {i \in 1..Len(pattern) : pattern[i] = "*"}

\* cache_manager.rs glob_match
glob_match(pattern, text) ==
    IF pattern = <<>> THEN text = <<>>
    ELSE IF pattern = <<"*">> THEN TRUE
    ELSE IF Cardinality(StarPositions(pattern)) = 1
         \* pattern.split('*') has exactly two parts: prefix and suffix
         THEN LET s == CHOOSE i \in StarPositions(pattern) : TRUE
                  prefix == SubSeq(pattern, 1, s - 1)
                  suffix == SubSeq(pattern, s + 1, Len(pattern))
              IN  StartsWith(text, prefix) /\ EndsWith(text, suffix)
    ELSE pattern = text

-----------------------------------------------------------------------------
(* CacheEntry *)

\* The largest chrono::Duration, in clock units (i64::MAX milliseconds in
\* chrono): a std Duration may be longer, up to u64::MAX seconds.
ChronoDurationMax == 200

\* chrono::Duration::from_std(ttl).unwrap_or_default(): a std Duration that
\* chrono cannot hold is an error, replaced by the default, a zero Duration
FromStdOrDefault(ttl) == IF ttl > ChronoDurationMax THEN 0 ELSE ttl

\* CacheEntry::is_expired, evaluated at time t (the sum is taken to stay in
\* the range of DateTime)
is_expired(e, t) == t > e.created_at + FromStdOrDefault(e.ttl)

\* mutant: with_tags is not applied
NewEntry_Untagged(data, ttl, tags, t) ==
    [data |-> data, created_at |-> t, ttl |-> ttl, access_count |-> 0,
     last_accessed |-> t, tags |-> <<>>]

\* CacheEntry::new(data, ttl).with_tags(tags), constructed at time t
NewEntry(data, ttl, tags, t) ==
    [data |-> data, created_at |-> t, ttl |-> ttl, access_count |-> 0,
     last_accessed |-> t, tags |-> tags]

\* mutant: the read is counted, its time is not recorded
Access_CountOnly(e, t) == [e EXCEPT !.access_count = @ + 1]

\* CacheEntry::access at time t
Access(e, t) == [e EXCEPT !.access_count = @ + 1, !.last_accessed = t]

-----------------------------------------------------------------------------
(* u64 arithmetic.  A u64 is the set of the positions (0..63) of its one    *)
(* bits, so that a product by a power of two is a shift and its overflow   *)
(* is a bit shifted out.                                                   *)

\* the bits of a number below 2^31
ToBits(n) == {b \in 0..30 : (n \div (2 ^ b)) % 2 = 1}

\* the number a bit set below 2^15 stands for
FromLowBits(S) ==
    LET sum[i \in 0..15] ==
            IF i = 15 THEN 0 ELSE (IF i \in S THEN 2 ^ i ELSE 0) + sum[i + 1]
    IN  sum[0]

\* 2_u64.pow(k): the wrapped result and whether it overflowed
Pow2U64(k) == [bits |-> IF k >= 64 THEN {} ELSE {k}, overflow |-> k >= 64]

\* a * p for p zero or a power of two: the wrapped result and the overflow
MulPow2U64(a, p) ==
    IF p = {} THEN [bits |-> {}, overflow |-> FALSE]
    ELSE LET k == CHOOSE b \in p : TRUE
         IN  [bits |-> {b + k : b \in {c \in a : c + k <= 63}},
              overflow |-> \E b \in a : b + k > 63]

\* Duration::from_millis(x.min(30000)), in ms
MaxBackoffMs == 30000

MinWithMaxBackoff(x) ==
    IF \E b \in x : b >= 15 THEN MaxBackoffMs
    ELSE Min(FromLowBits(x), MaxBackoffMs)

-----------------------------------------------------------------------------
(* ErrorRecovery and retry_with_backoff (error.rs) *)

\* ErrorRecovery::should_retry
should_retry(rec) == rec.can_retry /\ rec.retry_count < rec.max_retries

\* ErrorRecovery::increment_retry
increment_retry(rec) == [rec EXCEPT !.retry_count = @ + 1]

\* ErrorRecovery::get_backoff_duration: the Duration in ms, or a panic when
\* the build checks overflow and the power or the product overflows
get_backoff_duration(rec, checks) ==
    LET pw == Pow2U64(rec.retry_count)
        prod == MulPow2U64(rec.backoff_ms, pw.bits)
    IN  IF checks /\ (pw.overflow \/ prod.overflow)
        THEN [panic |-> TRUE, ms |-> 0]
        ELSE [panic |-> FALSE, ms |-> MinWithMaxBackoff(prod.bits)]

\* no call of retry_with_backoff is in progress
NoRetry ==
    /\ overflow_checks = FALSE
    /\ retry = [pc |-> "idle"]

\* retry_with_backoff(operation, policy) is entered
RetryEntered(policy) ==
    [pc |-> "call", policy |-> policy, recovery |-> policy, invocations |-> 0,
     returned |-> None, delays |-> <<>>, result |-> None]

\* operation().await completes with `outcome`: Ok(value), or Err(error); on
\* an error the loop returns it or computes the backoff, counts the retry
\* and sleeps.  (invocations counts the calls of operation, returned is what
\* the last call gave, and an error is marked with the call it came from.)
Invoke(outcome) ==
    /\ retry.pc = "call"
    /\ LET n == retry.invocations + 1
           res == IF outcome.ok THEN outcome
                  ELSE [ok |-> FALSE, kind |-> outcome.kind, attempt |-> n]
           backoff == get_backoff_duration(retry.recovery, overflow_checks)
       IN  retry' =
              IF outcome.ok \/ ~should_retry(retry.recovery)
              THEN [retry EXCEPT !.pc = "done", !.invocations = n,
                                 !.returned = Some(outcome), !.result = Some(res)]
              ELSE IF backoff.panic
              THEN [retry EXCEPT !.pc = "panicked", !.invocations = n,
                                 !.returned = Some(outcome)]
              ELSE [retry EXCEPT !.invocations = n, !.returned = Some(outcome),
                                 !.recovery = increment_retry(@),
                                 !.delays = Append(@, [k |-> retry.recovery.retry_count,
                                                       ms |-> backoff.ms])]
    /\ UNCHANGED <<overflow_checks, cacheVars, fb, svc, pf, bg, rd, pending>>

-----------------------------------------------------------------------------
(* with_fallback (error.rs) *)

\* no call of with_fallback is in progress
NoFallback == fb = [pc |-> "idle"]

\* no call of the facade is in progress
NoService == svc = [pc |-> "idle"]

\* no PrefetchService has been constructed
NoPrefetch == pf = [pc |-> "idle"]

\* refresh_in_background has spawned no task
NoRefresh == bg = <<>>

\* no concurrent call of get_packages is followed
NoReads == rd = [installed |-> FALSE, calls |-> <<>>]

\* no get and no round of the sweep is between its test and its removal
NoPending == pending = [get |-> {}, sweep |-> None]

\* with_fallback(primary, fallback) is entered: primary() is invoked and
\* awaited (calls lists the invocations of the closures, in order)
FallbackEntered ==
    [pc |-> "primary", calls |-> <<"primary">>, primary_outcome |-> None,
     fallback_outcome |-> None, result |-> None]

\* mutant: fallback() is invoked although primary succeeded
PrimaryReturns_AlwaysFallback(f, outcome) ==
    [f EXCEPT !.pc = "fallback", !.calls = Append(@, "fallback"),
              !.primary_outcome = Some(outcome)]

\* primary().await completes with `outcome`: Ok(result) is returned, on
\* Err(primary_error) fallback() is invoked and awaited
PrimaryReturns(f, outcome) ==
    IF outcome.ok
    THEN [f EXCEPT !.pc = "done", !.primary_outcome = Some(outcome),
                   !.result = Some(outcome)]
    ELSE [f EXCEPT !.pc = "fallback", !.calls = Append(@, "fallback"),
                   !.primary_outcome = Some(outcome)]

\* mutant: the error of the fallback is returned
FallbackReturns_OwnError(f, outcome) ==
    [f EXCEPT !.pc = "done", !.fallback_outcome = Some(outcome),
              !.result = Some(outcome)]

\* fallback().await completes with `outcome`: Ok(result) is returned, on
\* Err(fallback_error) the result is Err(primary_error)
FallbackReturns(f, outcome) ==
    [f EXCEPT !.pc = "done", !.fallback_outcome = Some(outcome),
              !.result = IF outcome.ok THEN Some(outcome) ELSE f.primary_outcome]

PrimaryCompletes(outcome) ==
    /\ fb.pc = "primary"
    /\ fb' = PrimaryReturns(fb, outcome)
    /\ UNCHANGED <<cacheVars, retryVars, svc, pf, bg, rd, pending>>

FallbackCompletes(outcome) ==
    /\ fb.pc = "fallback"
    /\ fb' = FallbackReturns(fb, outcome)
    /\ UNCHANGED <<cacheVars, retryVars, svc, pf, bg, rd, pending>>

-----------------------------------------------------------------------------
(* Inputs of the cache operations *)

Keys == {<<"a">>, <<"a", "b">>, <<"b">>}

Patterns == {<<>>, <<"a">>, <<"a", "*">>, <<"*", "b">>, <<"*">>}

TagX == <<"x">>

TagY == <<"y">>

TagLists == {<<>>, <<TagX>>, <<TagX, TagY>>, <<TagY>>}

\* serde_json values of two shapes, and a value serde_json cannot encode
Data == {"l1", "o1"}

Unserializable == "unserializable"

\* the values the facade stores: Vec<BrewPackage> built from the catalog
\* (with no package marked installed, or with package g marked installed) or
\* from the local tool, PackageSearchResult and BrewPackage likewise
PackageLists == {"catalog_packages", "catalog_packages_with_g", "brew_packages"}

SearchResults == {"catalog_result", "brew_result"}

PackageDetails == {"catalog_package", "brew_package"}

\* the Rust type a stored value decodes to
Shape(d) ==
    CASE d \in PackageLists -> "Vec<BrewPackage>"
      [] d \in SearchResults -> "PackageSearchResult"
      [] d \in PackageDetails -> "BrewPackage"
      [] d = "l1" -> "Vec"
      [] OTHER -> "Obj"

\* the type parameter T of get::<T>
ReadTypes == {"Value", "Vec"}

\* serde_json::from_value::<T>(d) succeeds
CanDeserialize(T, d) == T = "Value" \/ T = Shape(d)

\* a ttl longer than the clock runs, and a ttl chrono cannot hold
TtlLong == 150

TtlHuge == 250

TtlInputs == {None, Some(TtlLong), Some(TtlHuge)}

\* config.default_ttl of the caches modelled
DefaultTtl == 1

Strategies == {"LeastRecentlyUsed", "LeastFrequentlyUsed", "FirstInFirstOut",
               "TimeToLive"}

-----------------------------------------------------------------------------
(* CacheManager *)

Remove(st, ks) == [k \in DOMAIN st \ ks |-> st[k]]

Insert(st, key, e) == [k \in DOMAIN st \cup {key} |-> IF k = key THEN e ELSE st[k]]

\* entries.sort_by(rank); take(count), for rank a map from key to sort
\* field: the sets of keys the pass may take.  The sort is stable and the
\* map is iterated in no fixed order, so of the entries that compare equal
\* to the last one taken any may be taken.
LowestChoices(rank, count) ==
    LET D == DOMAIN rank
        n == Min(count, Cardinality(D))
    IN  IF n = 0 THEN {{}}
        ELSE LET x == CHOOSE v \in {rank[k] : k \in D} :
                         /\ Cardinality({k \in D : rank[k] < v}) < n
                         /\ n <= Cardinality({k \in D : rank[k] <= v})
                 below == {k \in D : rank[k] < x}
                 at == {k \in D : rank[k] = x}
             IN  {below \cup T :
                     T \in {S \in SUBSET at : Cardinality(S) = n - Cardinality(below)}}

\* mutant: the sort is descending, the most recently used go first
get_lru_entries_Newest(st, count) ==
    LowestChoices([k \in DOMAIN st |-> 0 - st[k].last_accessed], count)

get_lru_entries(st, count) ==
    LowestChoices([k \in DOMAIN st |-> st[k].last_accessed], count)

get_lfu_entries(st, count) ==
    LowestChoices([k \in DOMAIN st |-> st[k].access_count], count)

get_fifo_entries(st, count) ==
    LowestChoices([k \in DOMAIN st |-> st[k].created_at], count)

\* mutant: no entry is found expired
get_expired_entries_None(st, t) == {}

get_expired_entries(st, t) == {k \in DOMAIN st : is_expired(st[k], t)}

\* the batch size of one eviction pass
EvictBatch(cfg) == cfg.max_entries \div 10

\* evict_entries: the sets of keys one pass may remove
EvictChoices(cfg, st, t) ==
    CASE cfg.strategy = "LeastRecentlyUsed" -> get_lru_entries(st, EvictBatch(cfg))
      [] cfg.strategy = "LeastFrequentlyUsed" -> get_lfu_entries(st, EvictBatch(cfg))
      [] cfg.strategy = "FirstInFirstOut" -> get_fifo_entries(st, EvictBatch(cfg))
      [] OTHER -> {get_expired_entries(st, t)}

\* set / set_with_tags check the size against the capacity
AtCapacity(cfg, st) == Cardinality(DOMAIN st) >= cfg.max_entries

\* the outcome of CacheManager::get::<T>(key) at time t on map st:
\* the value returned, the map afterwards and the branch taken
GetOutcome(st, key, T, t) ==
    IF key \notin DOMAIN st
    THEN [ret |-> None, st |-> st, note |-> "miss"]
    ELSE LET e == Access(st[key], t)
         IN  IF is_expired(st[key], t)
             THEN [ret |-> None, st |-> Remove(st, {key}), note |-> "expired"]
             ELSE IF CanDeserialize(T, e.data)
             THEN [ret |-> Some(e.data), st |-> Insert(st, key, e), note |-> "hit"]
             ELSE [ret |-> None, st |-> Remove(st, {key}), note |-> "undecodable"]

\* the outcomes of set_with_tags(key, value, ttl, tags) at time t on map st
\* (set is the same with no tags)
SetOutcomes(cfg, st, key, value, ttl, tags, t) ==
    LET e == NewEntry(value, IF ttl = None THEN cfg.default_ttl ELSE ttl[1], tags, t)
    IN  IF value = Unserializable
        THEN {[ret |-> "SerializationError", st |-> st]}
        ELSE IF ~AtCapacity(cfg, st)
        THEN {[ret |-> "Ok", st |-> Insert(st, key, e)]}
        ELSE {[ret |-> "Ok", st |-> Insert(Remove(st, V), key, e)] :
                 V \in EvictChoices(cfg, st, t)}

\* invalidate_pattern: the keys the pattern selects
PatternMatches(pattern, key) ==
    Contains(key, pattern) \/ StartsWith(key, pattern) \/ glob_match(pattern, key)

\* mutant: only the first tag of the entry is looked up
TagsIntersect_FirstTagOnly(entryTags, tags) ==
    /\ entryTags # <<>>
    /\ \E j \in 1..Len(tags) : entryTags[1] = tags[j]

\* invalidate_by_tags: entry.tags.iter().any(|tag| tags.contains(tag))
TagsIntersect(entryTags, tags) ==
    \E i \in 1..Len(entryTags) : \E j \in 1..Len(tags) : entryTags[i] = tags[j]

-----------------------------------------------------------------------------
(* Actions of the cache *)

Get(key, T) ==
    LET o == GetOutcome(storage, key, T, now)
    IN  /\ o.note = "hit" => storage[key].access_count < MaxAccess
        /\ storage' = o.st
        /\ last' = [op |-> "get", key |-> key, arg |-> T, ret |-> o.ret, note |-> o.note]
        /\ UNCHANGED <<config, now, overflow_checks, retry, fb, svc, pf, bg, rd, pending>>

Set(key, value, ttl) ==
    \E o \in SetOutcomes(config, storage, key, value, ttl, <<>>, now) :
        /\ storage' = o.st
        /\ last' = [op |-> "set", key |-> key, arg |-> <<value, ttl, <<>>>>,
                    ret |-> None, note |-> o.ret]
        /\ UNCHANGED <<config, now, overflow_checks, retry, fb, svc, pf, bg, rd, pending>>

SetWithTags(key, value, ttl, tags) ==
    \E o \in SetOutcomes(config, storage, key, value, ttl, tags, now) :
        /\ storage' = o.st
        /\ last' = [op |-> "set_with_tags", key |-> key, arg |-> <<value, ttl, tags>>,
                    ret |-> None, note |-> o.ret]
        /\ UNCHANGED <<config, now, overflow_checks, retry, fb, svc, pf, bg, rd, pending>>

Invalidate(key) ==
    /\ storage' = Remove(storage, {key})
    /\ last' = [op |-> "invalidate", key |-> key, arg |-> None,
                ret |-> Some(key \in DOMAIN storage), note |-> "Ok"]
    /\ UNCHANGED <<config, now, overflow_checks, retry, fb, svc, pf, bg, rd, pending>>

InvalidatePattern(pattern) ==
    LET ks == {k \in DOMAIN storage : PatternMatches(pattern, k)}
    IN  /\ storage' = Remove(storage, ks)
        /\ last' = [op |-> "invalidate_pattern", key |-> None, arg |-> pattern,
                    ret |-> Some(Cardinality(ks)), note |-> "Ok"]
        /\ UNCHANGED <<config, now, overflow_checks, retry, fb, svc, pf, bg, rd, pending>>

InvalidateByTags(tags) ==
    LET ks == {k \in DOMAIN storage : TagsIntersect(storage[k].tags, tags)}
    IN  /\ storage' = Remove(storage, ks)
        /\ last' = [op |-> "invalidate_by_tags", key |-> None, arg |-> tags,
                    ret |-> Some(Cardinality(ks)), note |-> "Ok"]
        /\ UNCHANGED <<config, now, overflow_checks, retry, fb, svc, pf, bg, rd, pending>>

Clear ==
    /\ storage' = Remove(storage, DOMAIN storage)
    /\ last' = [op |-> "clear", key |-> None, arg |-> None, ret |-> None, note |-> "Ok"]
    /\ UNCHANGED <<config, now, overflow_checks, retry, fb, svc, pf, bg, rd, pending>>

\* one round of the loop of start_background_cleanup
Sweep ==
    LET ks == get_expired_entries(storage, now)
    IN  /\ storage' = Remove(storage, ks)
        /\ last' = [op |-> "sweep", key |-> None, arg |-> None,
                    ret |-> Some(Cardinality(ks)), note |-> "Ok"]
        /\ UNCHANGED <<config, now, overflow_checks, retry, fb, svc, pf, bg, rd, pending>>

\* time passes, up to the time limit
Tick(limit) ==
    /\ now < limit
    /\ now' = now + 1
    /\ last' = [op |-> "tick", key |-> None, arg |-> None, ret |-> None, note |-> "Ok"]
    /\ UNCHANGED <<config, storage, overflow_checks, retry, fb, svc, pf, bg, rd, pending>>

\* CacheManager::new(config): an empty map
NewCache(cfg) ==
    /\ NoRetry
    /\ NoFallback
    /\ NoService
    /\ NoRefresh
    /\ NoReads
    /\ NoPending
    /\ NoPrefetch
    /\ config = cfg
    /\ storage = <<>>
    /\ now = 0
    /\ last = [op |-> "new", key |-> None, arg |-> None, ret |-> None, note |-> "Ok"]

-----------------------------------------------------------------------------
(* SpecCache: reads, writes, removals, the sweep and the clock on a small   *)
(* cache with the default policy.                                          *)

SmallCap == 2

KeysAB == {<<"a">>, <<"a", "b">>}

InitCache ==
    NewCache([default_ttl |-> DefaultTtl, max_entries |-> SmallCap,
              strategy |-> "LeastRecentlyUsed"])

NextCache ==
    \/ \E k \in KeysAB, T \in ReadTypes : Get(k, T)
    \/ \E k \in KeysAB, v \in Data \cup {Unserializable}, t \in TtlInputs : Set(k, v, t)
    \/ \E k \in KeysAB : Invalidate(k)
    \/ Clear
    \/ Sweep
    \/ Tick(MaxTime)

SpecCache == InitCache /\ [][NextCache]_vars

\* a step that completes get::<T>(k) on a stored entry that T can decode
ReadsStored(k) ==
    /\ last'.op = "get"
    /\ last'.key = k
    /\ k \in DOMAIN storage
    /\ CanDeserialize(last'.arg, storage[k].data)

\* C1: lazy expiry on read.  A get(k) of a stored entry issued when
\* now > created_at + ttl returns absent and removes the entry, with or
\* without a sweep; issued when now <= created_at + ttl it returns the stored
\* value.  (now > created_at + ttl is written now - created_at > ttl.)
C1_LazyExpiryOnRead ==
    [][\A k \in KeysAB :
          ReadsStored(k) =>
             IF now - storage[k].created_at > storage[k].ttl
             THEN last'.ret = None /\ k \notin DOMAIN storage'
             ELSE last'.ret = Some(storage[k].data)]_vars

\* The same statement for the entries whose ttl chrono can hold: it holds.
LazyExpiryWithinChronoRange ==
    [][\A k \in KeysAB :
          (ReadsStored(k) /\ storage[k].ttl <= ChronoDurationMax) =>
             IF now - storage[k].created_at > storage[k].ttl
             THEN last'.ret = None /\ k \notin DOMAIN storage'
             ELSE last'.ret = Some(storage[k].data)]_vars

-----------------------------------------------------------------------------
(* SpecTags: tagged writes, reads and invalidation by tags on three keys.   *)

InitTags ==
    NewCache([default_ttl |-> DefaultTtl, max_entries |-> SmallCap,
              strategy |-> "LeastRecentlyUsed"])

NextTags ==
    \/ \E k \in Keys, g \in TagLists : SetWithTags(k, "l1", None, g)
    \/ \E k \in Keys : Set(k, "o1", None)
    \/ \E k \in Keys : Get(k, "Value")
    \/ \E g \in TagLists : InvalidateByTags(g)

SpecTags == InitTags /\ [][NextTags]_vars

Range(seq) == {seq[i] : i \in 1..Len(seq)}

\* C3: invalidate_by_tags(T) removes exactly the entries whose tag list
\* shares a tag with T, leaves every other entry unchanged and returns the
\* number of entries removed.
C3_InvalidateByTagsExact ==
    [][last'.op = "invalidate_by_tags" =>
          LET T == Range(last'.arg)
              hit == {k \in DOMAIN storage : Range(storage[k].tags) \cap T # {}}
          IN  /\ DOMAIN storage' = DOMAIN storage \ hit
              /\ \A k \in DOMAIN storage' : storage'[k] = storage[k]
              /\ last'.ret = Some(Cardinality(hit))]_vars

\* an invalidation by tags has removed two entries and kept a tagged one
C3_Witness ==
    /\ last.op = "invalidate_by_tags"
    /\ last.ret = Some(2)
    /\ \E k \in DOMAIN storage : storage[k].tags # <<>>

-----------------------------------------------------------------------------
(* SpecLru: a cache of capacity LruCap under LeastRecentlyUsed, filled to   *)
(* capacity.  The initial maps are those LruCap writes at LruCap distinct  *)
(* times leave (the write order is a rotation of the ascending, the        *)
(* descending or an alternating order of the keys); then any of the writes *)
(* and reads below, and one more tick of the clock.                        *)

LruCap == 20

\* how many rotations of each write order are tried
MaxRot == 1

Digits == <<"0", "1", "2", "3", "4", "5", "6", "7", "8", "9">>

\* the key "k<i>" for i < 100
KeyOf(i) == <<"k", Digits[(i \div 10) + 1], Digits[(i % 10) + 1]>>

WriteOrders == {"ascending", "descending", "alternating"}

\* the position (1..LruCap) of key i in a write order
OrderRank(order, i) ==
    CASE order = "ascending" -> i
      [] order = "descending" -> LruCap + 1 - i
      [] OTHER -> IF i % 2 = 0 THEN i \div 2 ELSE LruCap + 1 - ((i + 1) \div 2)

\* the time (0..LruCap-1) at which key i was written
WriteTime(order, rot, i) == (OrderRank(order, i) - 1 + rot) % LruCap

InitLru ==
    /\ NoRetry
    /\ NoFallback
    /\ NoService
    /\ NoRefresh
    /\ NoReads
    /\ NoPending
    /\ NoPrefetch
    /\ config = [default_ttl |-> DefaultTtl, max_entries |-> LruCap,
                 strategy |-> "LeastRecentlyUsed"]
    /\ \E order \in WriteOrders, rot \in 0..MaxRot :
          storage = [k \in {KeyOf(i) : i \in 1..LruCap} |->
                        LET i == CHOOSE j \in 1..LruCap : KeyOf(j) = k
                        IN  NewEntry("l1", TtlLong, <<>>, WriteTime(order, rot, i))]
    /\ now = LruCap
    /\ last = [op |-> "new", key |-> None, arg |-> None, ret |-> None, note |-> "Ok"]

\* the keys written and read once the cache is full: stored keys and new ones
LruKeys == {KeyOf(1), KeyOf(LruCap + 1), KeyOf(LruCap + 2)}

NextLru ==
    \/ \E k \in LruKeys : Set(k, "o1", Some(TtlLong))
    \/ \E k \in LruKeys : Get(k, "Value")
    \/ Tick(LruCap + 1)

SpecLru == InitLru /\ [][NextLru]_vars

DistinctLastAccessed(st) ==
    \A j, k \in DOMAIN st : j # k => st[j].last_accessed # st[k].last_accessed

\* a step that completes a successful set of a key that was not stored, on a
\* LeastRecentlyUsed cache of capacity >= 10 that holds exactly max_entries
\* entries of distinct last_accessed
SetsNewKeyAtCapacity ==
    /\ last'.op = "set"
    /\ last'.note = "Ok"
    /\ last'.key \notin DOMAIN storage
    /\ config.strategy = "LeastRecentlyUsed"
    /\ config.max_entries >= 10
    /\ Cardinality(DOMAIN storage) = config.max_entries
    /\ DistinctLastAccessed(storage)

\* C2: LRU eviction at capacity.  Such a set removes exactly the
\* floor(C/10) entries with the oldest last_accessed, removes and changes no
\* other entry, and leaves C - floor(C/10) + 1 entries.
C2_LruEvictsOldestTenth ==
    [][SetsNewKeyAtCapacity =>
          LET C == config.max_entries
              removed == DOMAIN storage \ DOMAIN storage'
              kept == DOMAIN storage \ removed
          IN  /\ Cardinality(removed) = C \div 10
              /\ \A v \in removed : \A u \in kept :
                    storage[v].last_accessed < storage[u].last_accessed
              /\ \A u \in kept : storage'[u] = storage[u]
              /\ DOMAIN storage' = kept \cup {last'.key}
              /\ Cardinality(DOMAIN storage') = C - (C \div 10) + 1]_vars

\* a set of a new key has just evicted from the full cache
C2_Witness ==
    /\ last.op = "set"
    /\ last.note = "Ok"
    /\ last.key = KeyOf(LruCap + 1)
    /\ Cardinality(DOMAIN storage) = LruCap - (LruCap \div 10) + 1
    /\ LruCap \div 10 >= 2

-----------------------------------------------------------------------------
(* SpecRetry: one call of retry_with_backoff, for each policy and build.    *)

\* max_retries runs to MaxRetries, and to LongRetries
MaxRetries == 3

LongRetries == 66

\* a retry_count at which 2^retry_count nears the width of u64
LateRetryCount == 62

\* base backoffs: 0, 1000, 20000 and 2^63 ms
BackoffInputs == {{}, ToBits(1000), ToBits(20000), {63}}

Policies ==
    [can_retry : BOOLEAN, retry_count : {0, LateRetryCount},
     max_retries : (0..MaxRetries) \cup {LongRetries}, backoff_ms : BackoffInputs]

\* the results of the operation: a value, or an error of one of these kinds
OpOutcomes ==
    {[ok |-> TRUE, value |-> "v"]}
    \cup {[ok |-> FALSE, kind |-> e] : e \in {"NetworkError", "CommandExecutionFailed"}}

InitRetry ==
    /\ config = [default_ttl |-> DefaultTtl, max_entries |-> SmallCap,
                 strategy |-> "LeastRecentlyUsed"]
    /\ storage = <<>>
    /\ now = 0
    /\ last = [op |-> "new", key |-> None, arg |-> None, ret |-> None, note |-> "Ok"]
    /\ overflow_checks \in BOOLEAN
    /\ \E policy \in Policies : retry = RetryEntered(policy)
    /\ NoFallback
    /\ NoService
    /\ NoRefresh
    /\ NoReads
    /\ NoPending
    /\ NoPrefetch

NextRetry == \E outcome \in OpOutcomes : Invoke(outcome)

SpecRetry == InitRetry /\ [][NextRetry]_vars

\* the number of invocations the claim gives an operation that always fails
ClaimedAttempts(policy) == IF policy.can_retry THEN policy.max_retries + 1 ELSE 1

\* the loop has returned the error of its last invocation, as it was given
ReturnedLastError ==
    /\ retry.result = Some([ok |-> FALSE, kind |-> retry.returned[1].kind,
                            attempt |-> retry.invocations])

\* C4: with a fresh policy (retry_count = 0) and an operation that fails on
\* every invocation, retry_with_backoff invokes it max_retries + 1 times when
\* can_retry and once otherwise, then returns the last error unmodified: it
\* never stops another way, never invokes more often, and when it has
\* returned an error the count is exact.
C4_RetryAttempts ==
    retry.policy.retry_count = 0 =>
       /\ retry.pc # "panicked"
       /\ retry.invocations <= ClaimedAttempts(retry.policy)
       /\ (retry.pc = "done" /\ ~retry.result[1].ok) =>
             /\ retry.invocations = ClaimedAttempts(retry.policy)
             /\ ReturnedLastError

\* The same without the first conjunct: whenever the call does return an
\* error, the count and the error are as claimed.  It holds.
RetryAttemptsWhenReturned ==
    retry.policy.retry_count = 0 =>
       /\ retry.invocations <= ClaimedAttempts(retry.policy)
       /\ (retry.pc = "done" /\ ~retry.result[1].ok) =>
             /\ retry.invocations = ClaimedAttempts(retry.policy)
             /\ ReturnedLastError

\* min(base * 2^k, 30000) for the mathematical product
ExactBackoffMs(base, k) == MinWithMaxBackoff({b + k : b \in base})

\* C5: the delay slept after the failure observed at retry_count = k is
\* min(base_backoff * 2^k, 30000) ms for every base and every k, and the
\* computation never aborts.
C5_BackoffDelays ==
    /\ retry.pc # "panicked"
    /\ \A i \in 1..Len(retry.delays) :
          retry.delays[i].ms = ExactBackoffMs(retry.policy.backoff_ms, retry.delays[i].k)

\* The same for the delays whose product fits in 64 bits.  It holds.
BackoffDelaysWithoutOverflow ==
    \A i \in 1..Len(retry.delays) :
       (\A b \in retry.policy.backoff_ms : b + retry.delays[i].k <= 63) =>
          retry.delays[i].ms = ExactBackoffMs(retry.policy.backoff_ms, retry.delays[i].k)

\* the kinds of failure that are not transient
NonTransientKinds == {"CommandExecutionFailed", "PackageNotFound", "HomebrewNotFound"}

\* C18: a failure that is not transient is not retried: when the operation
\* has failed with CommandExecutionFailed, PackageNotFound or
\* HomebrewNotFound the loop has returned that error, after this one
\* invocation, whatever max_retries is.
C18_NonTransientNotRetried ==
    (/\ retry.returned # None
     /\ ~retry.returned[1].ok
     /\ retry.returned[1].kind \in NonTransientKinds) =>
        /\ retry.pc = "done"
        /\ retry.invocations = 1
        /\ retry.result = Some([ok |-> FALSE, kind |-> retry.returned[1].kind,
                                attempt |-> 1])

-----------------------------------------------------------------------------
(* SpecFallback: one call of with_fallback, for every pair of results of    *)
(* the two closures.                                                       *)

\* the variants of BrewDeckError
ErrorKinds ==
    {"HomebrewNotFound", "PackageNotFound", "InstallationFailed",
     "UninstallationFailed", "UpdateFailed", "NetworkError", "CacheError",
     "PermissionDenied", "CommandExecutionFailed", "ParsingError", "IoError",
     "SerializationError", "TimeoutError", "RateLimitExceeded",
     "InvalidConfiguration", "InternalError"}

\* what a closure returns: Ok(value) or Err(error)
ClosureOutcomes ==
    {[ok |-> TRUE, value |-> v] : v \in {"v1", "v2"}}
    \cup {[ok |-> FALSE, kind |-> e] : e \in ErrorKinds}

InitFallback ==
    /\ config = [default_ttl |-> DefaultTtl, max_entries |-> SmallCap,
                 strategy |-> "LeastRecentlyUsed"]
    /\ storage = <<>>
    /\ now = 0
    /\ last = [op |-> "new", key |-> None, arg |-> None, ret |-> None, note |-> "Ok"]
    /\ NoRetry
    /\ fb = FallbackEntered
    /\ NoService
    /\ NoRefresh
    /\ NoReads
    /\ NoPending
    /\ NoPrefetch

NextFallback ==
    \/ \E outcome \in ClosureOutcomes : PrimaryCompletes(outcome)
    \/ \E outcome \in ClosureOutcomes : FallbackCompletes(outcome)

SpecFallback == InitFallback /\ [][NextFallback]_vars

\* both closures have failed and with_fallback has returned
BothFailed ==
    /\ fb.pc = "done"
    /\ fb.primary_outcome # None /\ ~fb.primary_outcome[1].ok
    /\ fb.fallback_outcome # None /\ ~fb.fallback_outcome[1].ok

\* C6: when primary and fallback both fail, with_fallback returns the error
\* produced by primary, never the one produced by fallback.
C6_ReturnsPrimaryError ==
    BothFailed =>
       /\ fb.result = fb.primary_outcome
       /\ fb.fallback_outcome # fb.primary_outcome => fb.result # fb.fallback_outcome

\* both have failed, with different errors
C6_Witness ==
    /\ BothFailed
    /\ fb.primary_outcome[1].kind = "NetworkError"
    /\ fb.fallback_outcome[1].kind = "CommandExecutionFailed"
    /\ fb.result = Some([ok |-> FALSE, kind |-> "NetworkError"])

\* the number of invocations of closure c
Invocations(c) == Cardinality({i \in 1..Len(fb.calls) : fb.calls[i] = c})

\* C7: with_fallback invokes primary exactly once; it invokes fallback
\* exactly once if and only if primary failed, and only after primary has
\* completed; when primary succeeds it returns primary's value without
\* invoking fallback, and when primary fails and fallback succeeds it
\* returns fallback's value.
C7_InvocationOrder ==
    fb.pc # "idle" =>
       /\ Invocations("primary") = 1
       /\ fb.calls[1] = "primary"
       /\ Invocations("fallback") =
             IF fb.primary_outcome # None /\ ~fb.primary_outcome[1].ok THEN 1 ELSE 0
       /\ (fb.primary_outcome # None /\ fb.primary_outcome[1].ok) =>
             /\ fb.pc = "done"
             /\ fb.result = fb.primary_outcome
             /\ fb.calls = <<"primary">>
       /\ (fb.fallback_outcome # None /\ fb.fallback_outcome[1].ok) =>
             /\ fb.pc = "done"
             /\ fb.result = fb.fallback_outcome
       /\ fb.pc = "done" => fb.result # None

\* primary failed, then fallback succeeded with a value
C7_Witness ==
    /\ fb.pc = "done"
    /\ fb.calls = <<"primary", "fallback">>
    /\ fb.primary_outcome = Some([ok |-> FALSE, kind |-> "TimeoutError"])
    /\ fb.result = Some([ok |-> TRUE, value |-> "v2"])

-----------------------------------------------------------------------------
(* BrewClient (services/brew_client.rs).  A run of a function is the list   *)
(* of the collaborator invocations it makes ("remote": one request to the   *)
(* catalog, "tool": one spawn of brew) and what it returns.                 *)

Ok(v) == [ok |-> TRUE, value |-> v]

Err(e) == [ok |-> FALSE, kind |-> e]

\* how the local tool behaves during one call: every command succeeds,
\* every command exits with a failure status, or no command can be run
ToolModes == {"up", "failing", "down"}

BrewMaxRetries == 2

BrewBackoffMs == 1000

\* ErrorRecovery::new().with_max_retries(2).with_backoff(1000)
BrewRecovery ==
    [can_retry |-> TRUE, retry_count |-> 0, max_retries |-> BrewMaxRetries,
     backoff_ms |-> ToBits(BrewBackoffMs)]

\* the invocations retry_with_backoff makes of an operation that always fails
RECURSIVE FailingAttempts(_)
FailingAttempts(rec) ==
    IF should_retry(rec) THEN 1 + FailingAttempts(increment_retry(rec)) ELSE 1

Tool(n) == [i \in 1..n |-> "tool"]

\* BrewClient::execute: execute_once under retry_with_backoff.  A command
\* that runs returns Ok (whatever its exit status), one that cannot be run
\* is an Err and is retried.
execute(mode) ==
    CASE mode = "up" -> [trace |-> Tool(1), outcome |-> Ok("success")]
      [] mode = "failing" -> [trace |-> Tool(1), outcome |-> Ok("failure")]
      [] mode = "down" -> [trace |-> Tool(FailingAttempts(BrewRecovery)),
                           outcome |-> Err("CommandExecutionFailed")]

\* a BrewClient function that runs one command and maps a failure status to
\* the error `failed`
Command(mode, value, failed) ==
    LET r == execute(mode)
    IN  [trace |-> r.trace,
         outcome |-> IF ~r.outcome.ok THEN r.outcome
                     ELSE IF r.outcome.value = "success" THEN Ok(value)
                     ELSE Err(failed)]

list_installed(mode) == Command(mode, "installed", "CommandExecutionFailed")

list_outdated(mode) == Command(mode, "outdated", "CommandExecutionFailed")

get_package_info(mode) == Command(mode, "info", "PackageNotFound")

search(mode) == Command(mode, "names", "CommandExecutionFailed")

-----------------------------------------------------------------------------
(* PackageService (services/package_service.rs): the fetches *)

\* what the request to the catalog and the decoding of its body give: the
\* catalog, a catalog with an item that has no name (and not the package
\* asked for), or a reqwest error converted by From<reqwest::Error>
RemoteOutcomes == {"catalog", "nameless", "NetworkError", "TimeoutError",
                   "RateLimitExceeded"}

TransientErrors == {"NetworkError", "TimeoutError", "RateLimitExceeded"}

\* the number of packages the local tool lists
InstalledCounts == {0, 1}

\* fetch_package_details_brew, with parse_brew_info
fetch_package_details_brew(mode) ==
    LET info == get_package_info(mode)
    IN  IF ~info.outcome.ok THEN info
        ELSE [trace |-> info.trace \o list_installed(mode).trace
                           \o list_outdated(mode).trace,
              outcome |-> Ok("brew_package")]

\* the details of n packages in turn (an error is logged and skipped or
\* replaced by a minimal entry)
RECURSIVE DetailsOfEach(_, _)
DetailsOfEach(mode, n) ==
    IF n = 0 THEN <<>>
    ELSE fetch_package_details_brew(mode).trace \o DetailsOfEach(mode, n - 1)

\* fetch_packages_from_api: one request, no retry
fetch_packages_from_api(remote, mode) ==
    IF remote \in TransientErrors
    THEN [trace |-> <<"remote">>, outcome |-> Err(remote)]
    ELSE [trace |-> <<"remote">> \o list_installed(mode).trace
                       \o list_outdated(mode).trace,
          outcome |-> IF remote = "nameless" THEN Err("ParsingError")
                      ELSE Ok("catalog_packages")]

\* fetch_packages_from_brew, the tool listing n packages
fetch_packages_from_brew(mode, n) ==
    LET installed == list_installed(mode)
    IN  IF ~installed.outcome.ok THEN installed
        ELSE [trace |-> installed.trace \o list_outdated(mode).trace
                           \o DetailsOfEach(mode, n),
              outcome |-> Ok("brew_packages")]

search_packages_api(remote, mode) ==
    LET r == fetch_packages_from_api(remote, mode)
    IN  IF ~r.outcome.ok THEN r
        ELSE [trace |-> r.trace, outcome |-> Ok("catalog_hits")]

search_packages_brew(mode, n) ==
    LET names == search(mode)
    IN  IF ~names.outcome.ok THEN names
        ELSE [trace |-> names.trace \o DetailsOfEach(mode, n),
              outcome |-> Ok("brew_hits")]

fetch_package_details_api(remote, mode) ==
    IF remote \in TransientErrors
    THEN [trace |-> <<"remote">>, outcome |-> Err(remote)]
    ELSE IF remote = "nameless"
    THEN [trace |-> <<"remote">>, outcome |-> Err("PackageNotFound")]
    ELSE [trace |-> <<"remote">> \o list_installed(mode).trace
                       \o list_outdated(mode).trace,
          outcome |-> Ok("catalog_package")]

-----------------------------------------------------------------------------
(* PackageService: the cached reads.  The clock unit of the facade is one   *)
(* minute.                                                                  *)

PackageTypes == {"Formula", "Cask"}

\* impl Display for PackageType
Display(package_type) ==
    IF package_type = "Formula" THEN <<"f", "o", "r", "m", "u", "l", "a">>
    ELSE <<"c", "a", "s", "k">>

Reads == {"get_packages", "search_packages", "get_package_details"}

\* format!("packages_{package_type}"), format!("search_{package_type}_{query}")
\* and format!("package_{package_type}_{name}")
cache_key(op, package_type, arg) ==
    CASE op = "get_packages" ->
            <<"p", "a", "c", "k", "a", "g", "e", "s", "_">> \o Display(package_type)
      [] op = "search_packages" ->
            <<"s", "e", "a", "r", "c", "h", "_">> \o Display(package_type)
               \o <<"_">> \o arg
      [] op = "get_package_details" ->
            <<"p", "a", "c", "k", "a", "g", "e", "_">> \o Display(package_type)
               \o <<"_">> \o arg

\* format!("type_{}", package_type)
TypeTag(package_type) == <<"t", "y", "p", "e", "_">> \o Display(package_type)

\* mutant: the tag of the package type is left out
cache_tags_Untyped(op, package_type, arg) ==
    CASE op = "get_packages" -> << <<"p", "a", "c", "k", "a", "g", "e", "s">> >>
      [] op = "search_packages" -> << <<"s", "e", "a", "r", "c", "h">> >>
      [] op = "get_package_details" -> << arg >>

\* the cache_tags of the three reads
cache_tags(op, package_type, arg) ==
    CASE op = "get_packages" ->
            << <<"p", "a", "c", "k", "a", "g", "e", "s">>, TypeTag(package_type) >>
      [] op = "search_packages" ->
            << <<"s", "e", "a", "r", "c", "h">>, TypeTag(package_type) >>
      [] op = "get_package_details" ->
            << <<"p", "a", "c", "k", "a", "g", "e", "_", "d", "e", "t", "a", "i", "l", "s">>,
               TypeTag(package_type), arg >>

\* Duration::from_secs(300), from_secs(60) and from_secs(600), in minutes
PackagesTtl == 5

SearchTtl == 1

DetailsTtl == 10

cache_ttl(op) ==
    CASE op = "get_packages" -> PackagesTtl
      [] op = "search_packages" -> SearchTtl
      [] op = "get_package_details" -> DetailsTtl

\* mutant: every read decodes a single BrewPackage
read_type_Single(op) == "BrewPackage"

\* the type parameter of the cache.get of each read
read_type(op) ==
    CASE op = "get_packages" -> "Vec<BrewPackage>"
      [] op = "search_packages" -> "PackageSearchResult"
      [] op = "get_package_details" -> "BrewPackage"

\* the primary closure of each read
Primary(op, remote, mode) ==
    CASE op = "get_packages" -> fetch_packages_from_api(remote, mode)
      [] op = "search_packages" -> search_packages_api(remote, mode)
      [] op = "get_package_details" -> fetch_package_details_api(remote, mode)

\* the fallback closure of each read
Fallback(op, mode, n) ==
    CASE op = "get_packages" -> fetch_packages_from_brew(mode, n)
      [] op = "search_packages" -> search_packages_brew(mode, n)
      [] op = "get_package_details" -> fetch_package_details_brew(mode)

\* what the read stores and returns for the value with_fallback gave:
\* search_packages wraps the packages in a PackageSearchResult
Stored(op, value) ==
    IF op # "search_packages" THEN value
    ELSE IF value = "catalog_hits" THEN "catalog_result" ELSE "brew_result"

\* a read is called: the cache is consulted, and on a miss with_fallback is
\* entered.  (trace lists the collaborator invocations of this call.)
Start(op, package_type, arg) ==
    LET key == cache_key(op, package_type, arg)
        o == GetOutcome(storage, key, read_type(op), now)
        call == [op |-> op, package_type |-> package_type, arg |-> arg,
                 key |-> key, trace |-> <<>>, calls |-> <<>>]
    IN  /\ svc.pc \in {"idle", "done"}
        /\ o.note = "hit" => storage[key].access_count < MaxAccess
        /\ storage' = o.st
        /\ last' = [op |-> "get", key |-> key, arg |-> read_type(op), ret |-> o.ret,
                    note |-> o.note]
        /\ IF o.ret # None
           THEN /\ svc' = call @@ [pc |-> "done", cached |-> TRUE,
                                   result |-> Some(Ok(o.ret[1]))]
                /\ fb' = [pc |-> "idle"]
           ELSE /\ svc' = call @@ [pc |-> "fetching", cached |-> FALSE, result |-> None]
                /\ fb' = FallbackEntered
        /\ UNCHANGED <<config, now, retryVars, pf, bg, rd, pending>>

\* the primary closure completes
PrimaryFetches(remote, mode) ==
    /\ svc.pc = "fetching"
    /\ fb.pc = "primary"
    /\ LET run == Primary(svc.op, remote, mode)
       IN  /\ fb' = PrimaryReturns(fb, run.outcome)
           /\ svc' = [svc EXCEPT !.trace = @ \o run.trace]
    /\ UNCHANGED <<cacheVars, retryVars, pf, bg, rd, pending>>

\* the fallback closure completes
FallbackFetches(mode, n) ==
    /\ svc.pc = "fetching"
    /\ fb.pc = "fallback"
    /\ LET run == Fallback(svc.op, mode, n)
       IN  /\ fb' = FallbackReturns(fb, run.outcome)
           /\ svc' = [svc EXCEPT !.trace = @ \o run.trace]
    /\ UNCHANGED <<cacheVars, retryVars, pf, bg, rd, pending>>

\* with_fallback has returned: an error is returned by `?`, a value is
\* stored with its tags and ttl and returned (calls and outcomes keep what
\* with_fallback invoked and got)
Complete ==
    /\ svc.pc = "fetching"
    /\ fb.pc = "done"
    /\ IF ~fb.result[1].ok
       THEN /\ svc' = [svc EXCEPT !.pc = "done", !.result = fb.result,
                                  !.calls = fb.calls]
            /\ UNCHANGED <<storage, last>>
       ELSE LET value == Stored(svc.op, fb.result[1].value)
                tags == cache_tags(svc.op, svc.package_type, svc.arg)
                ttl == Some(cache_ttl(svc.op))
            IN  \E o \in SetOutcomes(config, storage, svc.key, value, ttl, tags, now) :
                   /\ storage' = o.st
                   /\ last' = [op |-> "set_with_tags", key |-> svc.key,
                               arg |-> <<value, ttl, tags>>, ret |-> None,
                               note |-> o.ret]
                   /\ svc' = [svc EXCEPT !.pc = "done", !.calls = fb.calls,
                                         !.result = Some(IF o.ret = "Ok" THEN Ok(value)
                                                         ELSE Err(o.ret))]
    /\ fb' = [pc |-> "idle"]
    /\ UNCHANGED <<config, now, retryVars, pf, bg, rd, pending>>

-----------------------------------------------------------------------------
(* SpecFacade: the three reads on the default cache, the clock, and         *)
(* invalidation by tag.  A behaviour calls one of the reads, again and      *)
(* again: the keys of different reads are different and the cache stays     *)
(* below its capacity, so the reads do not act on each other.               *)

FacadeMaxTime == 11

DefaultConfigTtl == 5

DefaultMaxEntries == 1000

\* the query of search_packages / the name of get_package_details
Names == {<<"g">>}

\* the package type the reads are called with
CalledTypes == {"Formula"}

ArgsOf(op) == IF op = "get_packages" THEN {None} ELSE Names

\* the tags the tag invalidation is called with
KindTag(package_type) == <<"k", "i", "n", "d", ":">> \o Display(package_type)

\* the read of this behaviour is called
Call(op, package_type, arg) ==
    /\ IF svc.pc = "idle" THEN TRUE ELSE svc.op = op
    /\ Start(op, package_type, arg)

InitFacade ==
    NewCache([default_ttl |-> DefaultConfigTtl, max_entries |-> DefaultMaxEntries,
              strategy |-> "LeastRecentlyUsed"])

NextFacade ==
    \/ \E op \in Reads, pt \in CalledTypes : \E arg \in ArgsOf(op) : Call(op, pt, arg)
    \/ \E remote \in RemoteOutcomes, mode \in ToolModes : PrimaryFetches(remote, mode)
    \/ \E mode \in ToolModes, n \in InstalledCounts : FallbackFetches(mode, n)
    \/ Complete
    \/ Tick(FacadeMaxTime)
    \/ \E pt \in CalledTypes : InvalidateByTags(<<TypeTag(pt)>>)
    \/ \E pt \in CalledTypes : InvalidateByTags(<<KindTag(pt)>>)

SpecFacade == InitFacade /\ [][NextFacade]_vars

\* a step in which a read is called and looks up `key`
ReadStarts(key) ==
    /\ svc.pc \in {"idle", "done"}
    /\ last'.op = "get"
    /\ last'.key = key

\* the entry under key has not outlived its ttl
Unexpired(key) == now - storage[key].created_at <= storage[key].ttl

\* C8: cache-first reads.  When the cache holds an unexpired entry under the
\* key derived for a read (get_packages, search_packages or
\* get_package_details), the read returns the stored value and invokes
\* neither the remote catalog nor the local tool, nor a closure of
\* with_fallback; in particular a get_packages that follows a successful
\* get_packages of the same type within the ttl returns the same list.
C8_CacheFirstReads ==
    [][\A op \in Reads : \A arg \in ArgsOf(op) : \A pt \in CalledTypes :
          LET key == cache_key(op, pt, arg)
          IN  (ReadStarts(key) /\ key \in DOMAIN storage /\ Unexpired(key)) =>
                 /\ svc'.pc = "done"
                 /\ svc'.op = op
                 /\ svc'.result = Some(Ok(storage[key].data))
                 /\ svc'.trace = <<>>
                 /\ svc'.calls = <<>>
                 /\ fb'.pc = "idle"
                 /\ (/\ op = "get_packages"
                     /\ svc.pc = "done"
                     /\ svc.op = "get_packages"
                     /\ svc.package_type = pt
                     /\ svc.result[1].ok) => svc'.result = svc.result]_vars

\* a get_packages has been answered from the cache, after the clock moved,
\* with the list an earlier call built from the local tool
C8_Witness ==
    /\ svc.pc = "done"
    /\ svc.op = "get_packages"
    /\ svc.cached
    /\ svc.result = Some(Ok("brew_packages"))
    /\ svc.trace = <<>>
    /\ last.op = "get"
    /\ last.note = "hit"
    /\ now >= 1

\* "packages_<kind>"
PackagesKey(pt) ==
    IF pt = "Formula"
    THEN <<"p", "a", "c", "k", "a", "g", "e", "s", "_", "f", "o", "r", "m", "u", "l", "a">>
    ELSE <<"p", "a", "c", "k", "a", "g", "e", "s", "_", "c", "a", "s", "k">>

\* {"packages", "type_<kind>"}
PackagesTypeTags(pt) ==
    {<<"p", "a", "c", "k", "a", "g", "e", "s">>,
     IF pt = "Formula"
     THEN <<"t", "y", "p", "e", "_", "f", "o", "r", "m", "u", "l", "a">>
     ELSE <<"t", "y", "p", "e", "_", "c", "a", "s", "k">>}

\* {"entities", "kind:<kind>"}
EntitiesKindTags(pt) ==
    {<<"e", "n", "t", "i", "t", "i", "e", "s">>,
     IF pt = "Formula"
     THEN <<"k", "i", "n", "d", ":", "f", "o", "r", "m", "u", "l", "a">>
     ELSE <<"k", "i", "n", "d", ":", "c", "a", "s", "k">>}

\* a step in which a get_packages(pt) that missed the cache returns the
\* list with_fallback fetched
PackagesFetched(pt) ==
    /\ svc.pc = "fetching"
    /\ svc'.pc = "done"
    /\ svc.op = "get_packages"
    /\ svc.package_type = pt
    /\ fb.result[1].ok

\* a step that completes invalidate_by_tags({tag})
InvalidatesTag(tag) ==
    /\ last'.op = "invalidate_by_tags"
    /\ last'.arg = <<tag>>

\* C9 as stated: after a get_packages miss whose fetch succeeds, the cache
\* holds the fetched list under "packages_<kind>" with the tag set exactly
\* {"entities", "kind:<kind>"}, so invalidate_by_tags({"kind:<kind>"})
\* removes it.
C9_TaggedEntitiesKind ==
    [][\A pt \in CalledTypes :
          /\ PackagesFetched(pt) =>
                /\ PackagesKey(pt) \in DOMAIN storage'
                /\ storage'[PackagesKey(pt)].data = fb.result[1].value
                /\ Range(storage'[PackagesKey(pt)].tags) = EntitiesKindTags(pt)
          /\ \A tag \in EntitiesKindTags(pt) \ {<<"e", "n", "t", "i", "t", "i", "e", "s">>} :
                InvalidatesTag(tag) => PackagesKey(pt) \notin DOMAIN storage']_vars

\* C9, amended: after a get_packages miss whose fetch succeeds (through the
\* primary or through the fallback), the cache holds the fetched list under
\* "packages_<kind>" with the tag set exactly {"packages", "type_<kind>"},
\* so invalidate_by_tags({"type_<kind>"}) removes it.
C9_TaggedPackagesType ==
    [][\A pt \in CalledTypes :
          /\ PackagesFetched(pt) =>
                /\ PackagesKey(pt) \in DOMAIN storage'
                /\ storage'[PackagesKey(pt)].data = fb.result[1].value
                /\ Range(storage'[PackagesKey(pt)].tags) = PackagesTypeTags(pt)
                /\ svc'.result = fb.result
          /\ \A tag \in PackagesTypeTags(pt) \ {<<"p", "a", "c", "k", "a", "g", "e", "s">>} :
                InvalidatesTag(tag) => PackagesKey(pt) \notin DOMAIN storage']_vars

\* a get_packages miss has stored the list fetched through the fallback
C9_Witness ==
    /\ svc.pc = "done"
    /\ svc.op = "get_packages"
    /\ ~svc.cached
    /\ svc.calls = <<"primary", "fallback">>
    /\ svc.result = Some(Ok("brew_packages"))
    /\ last.op = "set_with_tags"
    /\ PackagesKey("Formula") \in DOMAIN storage
    /\ storage[PackagesKey("Formula")].data = "brew_packages"

\* the requests this call has made to the remote catalog
RemoteInvocations ==
    Cardinality({i \in 1..Len(svc.trace) : svc.trace[i] = "remote"})

\* get_packages has invoked its fallback after a transient error of the
\* remote fetch
FellBackOnTransient ==
    /\ svc.pc = "fetching"
    /\ svc.op = "get_packages"
    /\ Len(fb.calls) = 2
    /\ fb.primary_outcome[1].kind \in TransientErrors

\* C10: retries happen inside the remote branch: on a get_packages miss a
\* remote fetch that fails with a transient error is re-invoked (at least
\* once) before the local-tool fallback is invoked.
C10_RemoteRetriedBeforeFallback ==
    FellBackOnTransient => RemoteInvocations >= 2

\* What the code does: the fallback follows a single request.  It holds.
RemoteInvokedOnceBeforeFallback ==
    FellBackOnTransient => RemoteInvocations = 1

-----------------------------------------------------------------------------
(* PackageService: install_package, uninstall_package, update_package *)

MutatingOps == {"install_package", "uninstall_package", "update_package"}

\* the error BrewClient gives for a command that exits with a failure status
FailedKind(op) ==
    CASE op = "install_package" -> "InstallationFailed"
      [] op = "uninstall_package" -> "UninstallationFailed"
      [] op = "update_package" -> "UpdateFailed"

\* BrewClient::install_package / uninstall_package / update_package
brew_mutation(op, mode) == Command(mode, "Successfully done", FailedKind(op))

\* the pattern of invalidate_package_caches
SearchPattern == <<"s", "e", "a", "r", "c", "h", "_">>

\* mutant: only the entry of the package is invalidated
invalidate_package_caches_DetailOnly(st, package_type, name) ==
    Remove(st, {cache_key("get_package_details", package_type, name)})

\* invalidate_package_caches: invalidate(package_key), invalidate(packages_key)
\* and invalidate_pattern("search_"), on map st
invalidate_package_caches(st, package_type, name) ==
    LET s1 == Remove(st, {cache_key("get_package_details", package_type, name)})
        s2 == Remove(s1, {cache_key("get_packages", package_type, None)})
    IN  Remove(s2, {k \in DOMAIN s2 : PatternMatches(SearchPattern, k)})

\* mutant: the caches are invalidated whatever the tool returned
CachesAfter_Always(st, outcome, package_type, name) ==
    invalidate_package_caches(st, package_type, name)

\* match result { Ok(message) => invalidate .., Err(e) => .. }: the map after
CachesAfter(st, outcome, package_type, name) ==
    IF outcome.ok THEN invalidate_package_caches(st, package_type, name) ELSE st

\* the InstallResult built from the result of the tool (e.to_string() begins
\* with the name of the error)
InstallResultOf(outcome, name) ==
    [success |-> outcome.ok,
     message |-> IF outcome.ok THEN outcome.value ELSE outcome.kind,
     package_name |-> name]

\* install_package, uninstall_package or update_package(name, package_type),
\* the tool behaving as `mode` (tool keeps what BrewClient returned)
Mutate(op, package_type, name, mode) ==
    LET run == brew_mutation(op, mode)
        after == CachesAfter(storage, run.outcome, package_type, name)
        swept == {k \in DOMAIN storage : PatternMatches(SearchPattern, k)}
    IN  /\ svc.pc \in {"idle", "done"}
        /\ storage' = after
        /\ last' = IF run.outcome.ok
                   THEN [op |-> "invalidate_pattern", key |-> None,
                         arg |-> SearchPattern, ret |-> Some(Cardinality(swept)),
                         note |-> "Ok"]
                   ELSE last
        /\ svc' = [pc |-> "done", op |-> op, package_type |-> package_type,
                   arg |-> name,
                   key |-> cache_key("get_package_details", package_type, name),
                   trace |-> run.trace, calls |-> <<>>, cached |-> FALSE,
                   tool |-> run.outcome,
                   result |-> Some(Ok(InstallResultOf(run.outcome, name)))]
        /\ UNCHANGED <<config, now, retryVars, fb, pf, bg, rd, pending>>

-----------------------------------------------------------------------------
(* SpecMutate: the mutating operations on a cache the reads have filled.    *)

MutateNames == {<<"g">>, <<"h">>}

\* the reads whose results the cache may hold
FilledBy ==
    {<<"get_packages", "Formula", None>>, <<"get_packages", "Cask", None>>,
     <<"get_package_details", "Formula", <<"g">>>>,
     <<"get_package_details", "Formula", <<"h">>>>,
     <<"search_packages", "Formula", <<"g">>>>,
     <<"search_packages", "Cask", <<"h">>>>}

\* what the read c stores when it is answered by the catalog
CatalogValue(c) ==
    CASE c[1] = "get_packages" -> "catalog_packages"
      [] c[1] = "search_packages" -> "catalog_result"
      [] c[1] = "get_package_details" -> "catalog_package"

\* the map after the reads of C were answered at time 0
FilledStorage(C) ==
    LET call(k) == CHOOSE c \in C : cache_key(c[1], c[2], c[3]) = k
    IN  [k \in {cache_key(c[1], c[2], c[3]) : c \in C} |->
            NewEntry(CatalogValue(call(k)), cache_ttl(call(k)[1]),
                     cache_tags(call(k)[1], call(k)[2], call(k)[3]), 0)]

InitMutate ==
    /\ NoRetry
    /\ NoFallback
    /\ NoService
    /\ NoRefresh
    /\ NoReads
    /\ NoPending
    /\ NoPrefetch
    /\ config = [default_ttl |-> DefaultConfigTtl, max_entries |-> DefaultMaxEntries,
                 strategy |-> "LeastRecentlyUsed"]
    /\ \E C \in SUBSET FilledBy : storage = FilledStorage(C)
    /\ now = 0
    /\ last = [op |-> "new", key |-> None, arg |-> None, ret |-> None, note |-> "Ok"]

NextMutate ==
    \E op \in MutatingOps, pt \in PackageTypes, name \in MutateNames, mode \in ToolModes :
       Mutate(op, pt, name, mode)

SpecMutate == InitMutate /\ [][NextMutate]_vars

\* a step in which a mutating operation returns
MutationReturns == svc'.pc = "done" /\ svc'.op \in MutatingOps

\* "search_<kind>_<query>" for some kind and query
IsSearchKey(k) ==
    \E pt \in PackageTypes : StartsWith(k, SearchPattern \o Display(pt) \o <<"_">>)

\* C11: after install, uninstall or update of (name, kind) returns
\* success = true, the cache contains no entry under the detail key of
\* (kind, name), none under the listing key of kind, and no search-result
\* entry of any query or kind.
C11_InvalidatedOnSuccess ==
    [][(MutationReturns /\ svc'.result[1].ok /\ svc'.result[1].value.success) =>
          /\ cache_key("get_package_details", svc'.package_type, svc'.arg)
                \notin DOMAIN storage'
          /\ cache_key("get_packages", svc'.package_type, None) \notin DOMAIN storage'
          /\ \A k \in DOMAIN storage' : ~IsSearchKey(k)]_vars

\* an install has succeeded on a cache that held the entries of the package,
\* its listing and searches, and still holds the listing of the other type
C11_Witness ==
    /\ svc.pc = "done"
    /\ svc.op = "install_package"
    /\ svc.package_type = "Formula"
    /\ svc.arg = <<"g">>
    /\ svc.result[1].value.success
    /\ last.op = "invalidate_pattern"
    /\ last.ret = Some(2)
    /\ DOMAIN storage = {cache_key("get_packages", "Cask", None),
                         cache_key("get_package_details", "Formula", <<"h">>)}

\* C12: install, uninstall and update never return an error: when the local
\* tool fails (after its retries) the result is Ok with success = false and
\* the message of the failure, and the cache is exactly as before the call.
C12_FailureLeavesCache ==
    [][MutationReturns =>
          /\ svc'.result # None
          /\ svc'.result[1].ok
          /\ ~svc'.tool.ok =>
                /\ ~svc'.result[1].value.success
                /\ svc'.result[1].value.message = svc'.tool.kind
                /\ storage' = storage]_vars

\* an uninstall has failed after three runs of the tool, the cache is full
C12_Witness ==
    /\ svc.pc = "done"
    /\ svc.op = "uninstall_package"
    /\ svc.trace = Tool(3)
    /\ svc.result = Some(Ok([success |-> FALSE, message |-> "CommandExecutionFailed",
                             package_name |-> <<"g">>]))
    /\ Cardinality(DOMAIN storage) = Cardinality(FilledBy)

-----------------------------------------------------------------------------
(* PrefetchService (services/prefetch_service.rs).  pf holds the fields of  *)
(* the service and the activities in progress: an activity is a call of one *)
(* of the four prefetch functions, and it advances from one await to the   *)
(* next.  The sleeps between the items change nothing and are left out.     *)

Priorities == {"High", "Medium", "Low"}

ConnectionTypes == {"wifi", "cellular"}

EffectiveTypes == {"slow-2g", "2g", "3g", "4g"}

\* NetworkConditions (downlink and rtt are never read)
NetworkInputs ==
    [connection_type : ConnectionTypes, effective_type : EffectiveTypes,
     save_data : BOOLEAN]

DefaultMaxConcurrent == 3

DefaultPopularityThreshold == 1000

\* PrefetchConfig::default()
DefaultPrefetchConfig ==
    [enabled |-> TRUE, max_concurrent_requests |-> DefaultMaxConcurrent,
     wifi_only |-> FALSE, respect_save_data |-> TRUE,
     popularity_threshold |-> DefaultPopularityThreshold,
     predictive_enabled |-> TRUE, background_refresh_enabled |-> TRUE]

\* mutant: 3g allows every priority
quality_allows_3gAny(effective_type, priority) ==
    effective_type \notin {"slow-2g", "2g"}

\* the match on network.effective_type
quality_allows(effective_type, priority) ==
    CASE effective_type \in {"slow-2g", "2g"} -> FALSE
      [] effective_type = "3g" -> priority = "High"
      [] OTHER -> TRUE

\* should_allow_prefetch(priority) on the configuration cfg, the network
\* conditions (an Option) and the available permits of the semaphore
should_allow_prefetch(cfg, network, priority, permits) ==
    IF ~cfg.enabled THEN FALSE
    ELSE IF network # None /\ cfg.respect_save_data /\ network[1].save_data THEN FALSE
    ELSE IF network # None /\ cfg.wifi_only /\ network[1].connection_type = "cellular"
    THEN FALSE
    ELSE IF network # None /\ ~quality_allows(network[1].effective_type, priority)
    THEN FALSE
    ELSE permits > 0

\* update_stats(success, _, 0) on the counters of PrefetchStats
update_stats(stats, success) ==
    [total_requests |-> stats.total_requests + 1,
     successful_requests |-> stats.successful_requests + (IF success THEN 1 ELSE 0),
     failed_requests |-> stats.failed_requests + (IF success THEN 0 ELSE 1)]

\* iter().take(k)
Take(seq, k) == SubSeq(seq, 1, Min(k, Len(seq)))

PopularTake == 10

DependencyTake == 3

PatternTake == 5

ResultTake == 2

\* the throttle of the popular warm-up, Duration::from_secs(600), in minutes
PopularThrottle == 10

\* the characters of the names, in the order of their bytes
Alphabet == <<"0", "1", "2", "3", "4", "5", "6", "7", "8", "9", "g", "h", "k">>

CharRank(c) == CHOOSE i \in 1..Len(Alphabet) : Alphabet[i] = c

\* a < b for Strings
RECURSIVE StrLess(_, _)
StrLess(a, b) ==
    IF b = <<>> THEN FALSE
    ELSE IF a = <<>> THEN TRUE
    ELSE IF Head(a) # Head(b) THEN CharRank(Head(a)) < CharRank(Head(b))
    ELSE StrLess(Tail(a), Tail(b))

\* a name put in its place in a sorted Vec<String>
RECURSIVE InsertName(_, _)
InsertName(name, sorted) ==
    IF sorted = <<>> THEN <<name>>
    ELSE IF StrLess(name, Head(sorted)) THEN <<name>> \o sorted
    ELSE <<Head(sorted)>> \o InsertName(name, Tail(sorted))

\* popular.sort()
RECURSIVE SortNames(_)
SortNames(names) ==
    IF names = <<>> THEN <<>> ELSE InsertName(Head(names), SortNames(Tail(names)))

\* the packages whose downloads_365d exceed the threshold, in their order
RECURSIVE OverThreshold(_, _)
OverThreshold(packages, threshold) ==
    IF packages = <<>> THEN <<>>
    ELSE (IF Head(packages).downloads_365d > threshold
          THEN <<Head(packages).name>> ELSE <<>>)
            \o OverThreshold(Tail(packages), threshold)

\* get_popular_packages on the packages of a listing: filter by
\* downloads_365d, keep the names, sort them
popular_names(packages, threshold) == SortNames(OverThreshold(packages, threshold))

\* the listing the catalog answers with, when no other is chosen: two
\* packages over the default threshold
DefaultListing ==
    << [name |-> <<"g">>, downloads_365d |-> DefaultPopularityThreshold + 1],
       [name |-> <<"h">>, downloads_365d |-> DefaultPopularityThreshold + 2] >>

\* the popular names of a listing that was read: the packages the local
\* tool lists have no analytics
Popular(value) ==
    IF value = "catalog_packages"
    THEN popular_names(pf.listing, pf.config.popularity_threshold) ELSE <<>>

\* package.dependencies: parse_brew_info gives none
Dependencies(value) ==
    IF value = "catalog_package" THEN << <<"g">>, <<"h">> >> ELSE <<>>

\* search_results.packages: the catalog finds three packages, the local
\* tool one
Hits(value) ==
    IF value = "catalog_result" THEN << <<"g">>, <<"h">>, <<"k">> >> ELSE << <<"g">> >>

\* one call of the facade an activity will make, and what it is in the
\* activity: the listing of the popular warm-up ("list"), the package of
\* the related warm-up ("first"), an item of a batch ("item"), a search
\* ("search"), the listing of a background refresh ("refresh")
Item(op, package_type, arg, role) ==
    [op |-> op, package_type |-> package_type, arg |-> arg, role |-> role]

\* get_package_details for each of the names
DetailsOf(names, package_type) ==
    [j \in 1..Len(names) |-> Item("get_package_details", package_type, names[j], "item")]

\* for package_type in [Formula, Cask], the call f makes for it
BothTypes(op, arg, role) ==
    << Item(op, "Formula", arg, role), Item(op, "Cask", arg, role) >>

\* for pattern in user_patterns.iter().take(5), a search of each type
RECURSIVE Searches(_)
Searches(patterns) ==
    IF patterns = <<>> THEN <<>>
    ELSE BothTypes("search_packages", Head(patterns), "search")
            \o Searches(Tail(patterns))

\* a read of the facade, from the lookup to the store, on the map st: the
\* results it can have, the map it leaves and whether with_fallback was
\* entered (the catalog, and after it perhaps the local tool, was asked)
FacadeRead(cfg, st, call, remote, mode, n, t) ==
    LET key == cache_key(call.op, call.package_type, call.arg)
        o == GetOutcome(st, key, read_type(call.op), t)
        p == PrimaryReturns(FallbackEntered, Primary(call.op, remote, mode).outcome)
        f == IF p.pc = "done" THEN p
             ELSE FallbackReturns(p, Fallback(call.op, mode, n).outcome)
        r == f.result[1]
    IN  IF o.ret # None
        THEN {[result |-> Ok(o.ret[1]), st |-> o.st, fetched |-> FALSE]}
        ELSE IF ~r.ok THEN {[result |-> r, st |-> o.st, fetched |-> TRUE]}
        ELSE {[result |-> IF s.ret = "Ok" THEN Ok(Stored(call.op, r.value))
                          ELSE Err(s.ret),
               st |-> s.st, fetched |-> TRUE] :
                 s \in SetOutcomes(cfg, o.st, key, Stored(call.op, r.value),
                                   Some(cache_ttl(call.op)),
                                   cache_tags(call.op, call.package_type, call.arg), t)}

\* an activity slot: no activity
IdleTask ==
    [activity |-> "none", pc |-> "idle", package_type |-> "Formula", holds |-> FALSE,
     todo |-> <<>>, current |-> None, made |-> 0, failed |-> 0, failed_before |-> 0,
     fetched |-> 0, result |-> None]

\* PrefetchService::new on `slots` activity slots (lock is the activity that
\* holds the write guard of last_prefetch_time; listing is the packages of
\* the listing of the catalog, with their analytics; runs lists, for each package
\* type, the times at which the popular warm-up got past its throttle and
\* at which it then returned; started counts the activities called;
\* writers is the queue of the calls of update_config that wait for the
\* write guard of config, and updates counts the calls of update_config
\* that wait or have waited)
NewPrefetch(slots) ==
    [config |-> DefaultPrefetchConfig,
     listing |-> DefaultListing,
     network |-> None,
     permits |-> DefaultMaxConcurrent,
     stats |-> [total_requests |-> 0, successful_requests |-> 0, failed_requests |-> 0],
     popular_packages_cache |-> [pt \in PackageTypes |-> None],
     last_prefetch_time |-> [pt \in PackageTypes |-> None],
     lock |-> 0,
     runs |-> [pt \in PackageTypes |-> <<>>],
     started |-> 0,
     writers |-> <<>>,
     updates |-> 0,
     tasks |-> [i \in slots |-> IdleTask]]

\* what a call of should_allow_prefetch leaves in `last`, and what every
\* other step of the prefetch service leaves there
PfStep(op, arg, ret) == [op |-> op, key |-> None, arg |-> arg, ret |-> ret, note |-> "Ok"]

PfOther == PfStep("prefetch", None, None)

\* the activity slot i is free
Free(i) == pf.tasks[i].pc \in {"idle", "done"}

\* config.read() is granted: the lock is fair, a call of update_config that
\* waits for the write guard goes before the readers that come after it
ConfigReadable == pf.writers = <<>>

\* mutant: a denied activity goes on
Proceeds_Always(allowed, switch) == switch

\* the checks at the entry of an activity: should_allow_prefetch(priority),
\* then the switch of the activity in the configuration
Proceeds(allowed, switch) == allowed /\ switch

\* an activity is entered: should_allow_prefetch(priority) and the switch of
\* the activity decide whether it returns Ok(()) at once or goes on at pc
Enter(i, activity, priority, package_type, switch, pc, todo) ==
    LET allowed == should_allow_prefetch(pf.config, pf.network, priority, pf.permits)
        t == [IdleTask EXCEPT !.activity = activity, !.package_type = package_type,
                              !.failed_before = pf.stats.failed_requests]
    IN  /\ Free(i)
        /\ ConfigReadable
        /\ pf' = [pf EXCEPT
                    !.started = @ + 1,
                    !.tasks[i] = IF Proceeds(allowed, switch)
                                 THEN [t EXCEPT !.pc = pc, !.todo = todo]
                                 ELSE [t EXCEPT !.pc = "done",
                                                !.result = Some(Ok("unit"))]]
        /\ last' = PfOther
        /\ UNCHANGED <<config, storage, now, retryVars, fb, svc, bg, rd, pending>>

\* prefetch_popular_packages(package_type) is called: it goes on to take the
\* write lock of last_prefetch_time
PrefetchPopularPackages(i, package_type) ==
    Enter(i, "popular", "Medium", package_type, TRUE, "lock", <<>>)

\* prefetch_related_packages(package_name, package_type) is called: it goes
\* on to acquire a permit
PrefetchRelatedPackages(i, package_name, package_type) ==
    Enter(i, "related", "Low", package_type, TRUE, "acquire",
          << Item("get_package_details", package_type, package_name, "first") >>)

\* background_refresh_stale_data() is called
BackgroundRefreshStaleData(i) ==
    Enter(i, "background", "Low", "Formula", pf.config.background_refresh_enabled,
          "ready", BothTypes("get_packages", None, "refresh"))

\* predictive_prefetch(user_patterns) is called
PredictivePrefetch(i, user_patterns) ==
    Enter(i, "predictive", "Low", "Formula", pf.config.predictive_enabled,
          "ready", Searches(Take(user_patterns, PatternTake)))

\* the popular warm-up gets the write lock of last_prefetch_time and looks
\* up its package type: inside the throttle window it returns Ok(()), the
\* guard is dropped; otherwise it keeps the guard and goes on to acquire
TakeLock(i) ==
    LET t == pf.tasks[i]
        seen == pf.last_prefetch_time[t.package_type]
        throttled == IF seen = None THEN FALSE ELSE now - seen[1] < PopularThrottle
    IN  /\ t.pc = "lock"
        /\ pf.lock = 0
        /\ pf' = IF throttled
                 THEN [pf EXCEPT !.tasks[i].pc = "done",
                                 !.tasks[i].result = Some(Ok("unit"))]
                 ELSE [pf EXCEPT !.lock = i, !.tasks[i].pc = "acquire",
                                 !.runs[t.package_type] =
                                     Append(@, [start |-> now, end |-> None])]
        /\ last' = PfOther
        /\ UNCHANGED <<config, storage, now, retryVars, fb, svc, bg, rd, pending>>

\* request_semaphore.acquire() completes.  The popular warm-up then enters
\* get_popular_packages: the names are in popular_packages_cache or the
\* listing is to be fetched.
Acquire(i) ==
    LET t == pf.tasks[i]
        cached == pf.popular_packages_cache[t.package_type]
        todo == IF t.activity # "popular" THEN t.todo
                ELSE IF cached = None
                THEN << Item("get_packages", t.package_type, None, "list") >>
                ELSE DetailsOf(Take(cached[1], PopularTake), t.package_type)
    IN  /\ t.pc = "acquire"
        /\ pf.permits > 0
        /\ pf' = [pf EXCEPT !.permits = @ - 1,
                            !.tasks[i] = [t EXCEPT !.pc = "ready", !.holds = TRUE,
                                                   !.todo = todo]]
        /\ last' = PfOther
        /\ UNCHANGED <<config, storage, now, retryVars, fb, svc, bg, rd, pending>>

\* the background refresh looks up the listing of the next package type in
\* the cache: when it is there a permit is acquired next, otherwise the
\* type is skipped
ChecksListing(i) ==
    LET t == pf.tasks[i]
        c == Head(t.todo)
        o == GetOutcome(storage, cache_key(c.op, c.package_type, c.arg), "Value", now)
    IN  /\ t.pc = "ready"
        /\ t.todo # <<>>
        /\ t.activity = "background"
        /\ ~t.holds
        /\ storage' = o.st
        /\ pf' = IF o.ret # None THEN [pf EXCEPT !.tasks[i].pc = "acquire"]
                 ELSE [pf EXCEPT !.tasks[i].todo = Tail(@)]
        /\ last' = PfOther
        /\ UNCHANGED <<config, now, retryVars, fb, svc, bg, rd, pending>>

\* the activity calls the facade for the next item
Calls(i) ==
    LET t == pf.tasks[i]
    IN  /\ t.pc = "ready"
        /\ t.todo # <<>>
        /\ t.activity = "background" => t.holds
        /\ pf' = [pf EXCEPT !.tasks[i] = [t EXCEPT !.pc = "calling",
                                                   !.current = Some(Head(t.todo)),
                                                   !.todo = Tail(t.todo)]]
        /\ last' = PfOther
        /\ UNCHANGED <<config, storage, now, retryVars, fb, svc, bg, rd, pending>>

\* the names the result of a call gives the activity to fetch next: the
\* popular names of a listing, the dependencies of the package, the
\* packages of a search; nothing on an error or after an item
BatchOf(c, result) ==
    CASE ~result.ok -> <<>>
      [] c.role = "list" -> Take(Popular(result.value), PopularTake)
      [] c.role = "first" -> Take(Dependencies(result.value), DependencyTake)
      [] c.role = "search" -> Take(Hits(result.value), ResultTake)
      [] OTHER -> <<>>

\* mutant: an error ends the loop
AfterCall_StopAtError(c, result, todo) ==
    IF result.ok THEN DetailsOf(BatchOf(c, result), c.package_type) \o todo ELSE <<>>

\* the calls the activity has still to make after call c returned: an
\* error is logged and the loops go on
AfterCall(c, result, todo) == DetailsOf(BatchOf(c, result), c.package_type) \o todo

\* mutant: the permit is not given back
drop_permit_Leaks(permits, holds) == permits

\* drop(_permit): the permits of the semaphore after the permit the
\* activity holds, if it holds one, is dropped
drop_permit(permits, holds) == IF holds THEN permits + 1 ELSE permits

\* the call of the facade returns (get_popular_packages, given the listing,
\* goes on when it has the read guard of config).  An error of the listing
\* of the popular warm-up or of the package of the related warm-up leaves
\* the block by `?`;
\* every other error is logged.  The permit of a background refresh is
\* dropped at the end of its block.
Returns(i, remote, mode, n) ==
    LET t == pf.tasks[i]
        c == t.current[1]
    IN  /\ t.pc = "calling"
        /\ \E r \in FacadeRead(config, storage, c, remote, mode, n, now) :
              LET ok == r.result.ok
                  leaves == c.role \in {"list", "first"} /\ ~ok
                  dropped == c.role = "refresh"
              IN  /\ (c.role = "list" /\ ok) => ConfigReadable
                  /\ storage' = r.st
                  /\ pf' = [pf EXCEPT
                              !.popular_packages_cache[c.package_type] =
                                  IF c.role = "list" /\ ok
                                  THEN Some(Popular(r.result.value)) ELSE @,
                              !.permits = IF dropped THEN drop_permit(@, t.holds) ELSE @,
                              !.tasks[i] =
                                  [t EXCEPT !.pc = "ready",
                                            !.current = None,
                                            !.holds = IF dropped THEN FALSE ELSE @,
                                            !.todo = AfterCall(c, r.result, @),
                                            !.made = @ + 1,
                                            !.failed = @ + (IF ok THEN 0 ELSE 1),
                                            !.fetched = @ + (IF r.fetched THEN 1 ELSE 0),
                                            !.result = IF leaves THEN Some(r.result)
                                                       ELSE @]]
                  /\ last' = PfOther
        /\ UNCHANGED <<config, now, retryVars, fb, svc, bg, rd, pending>>

\* mutant: the time is kept only of a run that succeeded
last_prefetch_insert_OnSuccess(seen, ok, t) == IF ok THEN Some(t) ELSE seen

\* last_prefetch.insert(cache_key, Instant::now()) at time t after a run
\* whose result is Ok or not, on the time seen kept before
last_prefetch_insert(seen, ok, t) == Some(t)

\* the activity returns.  The popular and the related warm-up call
\* update_stats(result.is_ok()), the popular warm-up stamps
\* last_prefetch_time and drops its guard; the permit is dropped.
Finishes(i) ==
    LET t == pf.tasks[i]
        result == IF t.result = None THEN Some(Ok("unit")) ELSE t.result
    IN  /\ t.pc = "ready"
        /\ t.todo = <<>>
        /\ pf' = [pf EXCEPT
                    !.stats = IF t.activity \in {"popular", "related"}
                              THEN update_stats(@, result[1].ok) ELSE @,
                    !.last_prefetch_time[t.package_type] =
                        IF t.activity = "popular"
                        THEN last_prefetch_insert(@, result[1].ok, now) ELSE @,
                    !.runs[t.package_type] =
                        IF t.activity = "popular"
                        THEN [@ EXCEPT ![Len(@)].end = Some(now)] ELSE @,
                    !.lock = IF t.activity = "popular" THEN 0 ELSE @,
                    !.permits = drop_permit(@, t.holds),
                    !.tasks[i] = [t EXCEPT !.pc = "done", !.holds = FALSE,
                                           !.result = result]]
        /\ last' = PfOther
        /\ UNCHANGED <<config, storage, now, retryVars, fb, svc, bg, rd, pending>>

\* update_network_conditions(conditions)
UpdateNetworkConditions(conditions) ==
    /\ pf' = [pf EXCEPT !.network = Some(conditions)]
    /\ last' = PfOther
    /\ UNCHANGED <<config, storage, now, retryVars, fb, svc, bg, rd, pending>>

\* mutant: the guard is kept by an activity that has returned
ConfigReaders_KeptOnReturn ==
    {i \in DOMAIN pf.tasks :
        /\ pf.tasks[i].activity \in {"background", "predictive"}
        /\ pf.tasks[i].pc \notin {"idle", "config"}}

\* the activities that hold a read guard of config: the background refresh
\* and the predictive prefetch keep the one they take after the checks at
\* their entry until they return
ConfigReaders ==
    {i \in DOMAIN pf.tasks :
        /\ pf.tasks[i].activity \in {"background", "predictive"}
        /\ pf.tasks[i].pc \notin {"idle", "config", "done"}}

\* update_config(new_config): with the write guard of config, the
\* configuration is replaced; the semaphore is the one made by new
UpdateConfig(new_config) ==
    /\ ConfigReaders = {}
    /\ ConfigReadable
    /\ pf' = [pf EXCEPT !.config = new_config]
    /\ last' = PfOther
    /\ UNCHANGED <<config, storage, now, retryVars, fb, svc, bg, rd, pending>>

\* should_allow_prefetch(priority) is called
ShouldAllowPrefetch(priority) ==
    /\ ConfigReadable
    /\ last' = PfStep("should_allow_prefetch", Some(priority),
                      Some(should_allow_prefetch(pf.config, pf.network, priority,
                                                 pf.permits)))
    /\ UNCHANGED <<config, storage, now, retryVars, fb, svc, pf, bg, rd, pending>>

\* a PrefetchService on the default cache
InitPrefetchService(slots) ==
    /\ NoRetry
    /\ NoFallback
    /\ NoService
    /\ NoRefresh
    /\ NoReads
    /\ NoPending
    /\ config = [default_ttl |-> DefaultConfigTtl, max_entries |-> DefaultMaxEntries,
                 strategy |-> "LeastRecentlyUsed"]
    /\ storage = <<>>
    /\ now = 0
    /\ last = PfOther
    /\ pf = NewPrefetch(slots)

\* fewer than `limit` activities have been called
Within(limit) == pf.started < limit

\* the slots are taken in order
NextSlot(i) == i = pf.started + 1

-----------------------------------------------------------------------------
(* SpecPermits: up to MaxConcurrent activities at a time on one             *)
(* PrefetchService, each slot called once; the catalog answers or the      *)
(* network is down, the local tool cannot be run.                          *)

MaxConcurrent == DefaultMaxConcurrent + 1

PermitSlots == 1..MaxConcurrent

PermitRemotes == {"NetworkError"}

PermitPatterns == {<< <<"g">> >>}

InitPermits == InitPrefetchService(PermitSlots)

NextPermits ==
    \/ \E i \in PermitSlots, pt \in CalledTypes :
          NextSlot(i) /\ PrefetchPopularPackages(i, pt)
    \/ \E i \in PermitSlots, pt \in CalledTypes, name \in Names :
          NextSlot(i) /\ PrefetchRelatedPackages(i, name, pt)
    \/ \E i \in PermitSlots : NextSlot(i) /\ BackgroundRefreshStaleData(i)
    \/ \E i \in PermitSlots, ps \in PermitPatterns :
          NextSlot(i) /\ PredictivePrefetch(i, ps)
    \/ \E i \in PermitSlots : TakeLock(i)
    \/ \E i \in PermitSlots : Acquire(i)
    \/ \E i \in PermitSlots : ChecksListing(i)
    \/ \E i \in PermitSlots : Calls(i)
    \/ \E i \in PermitSlots, remote \in PermitRemotes : Returns(i, remote, "down", 0)
    \/ \E i \in PermitSlots : Finishes(i)

SpecPermits == InitPermits /\ [][NextPermits]_vars

\* the activities that are calling the facade
Calling == {i \in DOMAIN pf.tasks : pf.tasks[i].pc = "calling"}

\* C13: every prefetch unit of work holds a permit of the semaphore while it
\* is calling the facade, so at most max_concurrent_requests units are
\* calling the facade at the same time.
C13_PermitHeldWhileCalling ==
    /\ \A i \in Calling : pf.tasks[i].holds
    /\ Cardinality(Calling) <= pf.config.max_concurrent_requests

-----------------------------------------------------------------------------
(* SpecAllow: should_allow_prefetch under every configuration switch it     *)
(* reads, every network report and every number of available permits (the  *)
(* permits are taken by related warm-ups that have acquired).               *)

AllowSlots == 1..DefaultMaxConcurrent

\* the configurations update_config is called with
AllowConfigs ==
    {[DefaultPrefetchConfig EXCEPT !.enabled = e, !.wifi_only = w,
                                   !.respect_save_data = r] :
        e \in BOOLEAN, w \in BOOLEAN, r \in BOOLEAN}

InitAllow == InitPrefetchService(AllowSlots)

NextAllow ==
    \/ \E c \in AllowConfigs : UpdateConfig(c)
    \/ \E c \in NetworkInputs : UpdateNetworkConditions(c)
    \/ \E p \in Priorities : ShouldAllowPrefetch(p)
    \/ \E i \in AllowSlots, name \in Names, pt \in CalledTypes :
          NextSlot(i) /\ PrefetchRelatedPackages(i, name, pt)
    \/ \E i \in AllowSlots : Acquire(i)

SpecAllow == InitAllow /\ [][NextAllow]_vars

\* C14: with known network conditions should_allow_prefetch(priority) is
\* true exactly when prefetching is enabled, data saving is not both
\* respected and requested, the connection is not cellular under wifi_only,
\* the effective type is neither slow-2g nor 2g, it is not 3g unless the
\* priority is High, and a permit is available.
C14_ShouldAllowPrefetch ==
    [][(last'.op = "should_allow_prefetch" /\ pf.network # None) =>
          (last'.ret = Some(TRUE) <=>
              /\ pf.config.enabled
              /\ ~(pf.config.respect_save_data /\ pf.network[1].save_data)
              /\ ~(pf.config.wifi_only /\ pf.network[1].connection_type = "cellular")
              /\ pf.network[1].effective_type \notin {"slow-2g", "2g"}
              /\ pf.network[1].effective_type = "3g" => last'.arg = Some("High")
              /\ pf.permits > 0)]_vars

\* should_allow_prefetch(High) has returned true on a cellular 3g
\* connection that asks to save data, with one permit left
C14_Witness ==
    /\ last.op = "should_allow_prefetch"
    /\ last.arg = Some("High")
    /\ last.ret = Some(TRUE)
    /\ pf.network = Some([connection_type |-> "cellular", effective_type |-> "3g",
                          save_data |-> TRUE])
    /\ ~pf.config.respect_save_data
    /\ ~pf.config.wifi_only
    /\ pf.permits = 1

-----------------------------------------------------------------------------
(* SpecPrefetch: one activity at a time on one PrefetchService, MaxRuns     *)
(* activities in all, with every outcome of the catalog and of the local   *)
(* tool.                                                                    *)

MaxRuns == 2

PrefetchPatterns == {<<>>, << <<"g">> >>}

InitPrefetch == InitPrefetchService({1})

NextPrefetch ==
    \/ \E pt \in CalledTypes : Within(MaxRuns) /\ PrefetchPopularPackages(1, pt)
    \/ \E pt \in CalledTypes, name \in Names :
          Within(MaxRuns) /\ PrefetchRelatedPackages(1, name, pt)
    \/ Within(MaxRuns) /\ BackgroundRefreshStaleData(1)
    \/ \E ps \in PrefetchPatterns : Within(MaxRuns) /\ PredictivePrefetch(1, ps)
    \/ TakeLock(1)
    \/ Acquire(1)
    \/ ChecksListing(1)
    \/ Calls(1)
    \/ \E remote \in RemoteOutcomes, mode \in ToolModes, n \in InstalledCounts :
          Returns(1, remote, mode, n)
    \/ Finishes(1)

SpecPrefetch == InitPrefetch /\ [][NextPrefetch]_vars

\* the activity of slot i returns in this step, having got past the checks
\* at its entry
ActivityReturns(i) == pf.tasks[i].pc = "ready" /\ pf'.tasks[i].pc = "done"

\* C15: when an activity returns, PrefetchStats.failed has been incremented
\* for every call of the facade that failed inside it.
C15_FailuresCounted ==
    [][\A i \in DOMAIN pf.tasks :
          ActivityReturns(i) =>
             pf'.stats.failed_requests
                 >= pf.tasks[i].failed_before + pf.tasks[i].failed]_vars

\* the call of an item of a batch (a popular package, a dependency, the
\* listing of a type, a search, a search result) fails in this step
ItemFails(i) ==
    /\ pf.tasks[i].pc = "calling"
    /\ pf.tasks[i].current[1].role \in {"item", "search", "refresh"}
    /\ pf'.tasks[i].pc = "ready"
    /\ pf'.tasks[i].failed = pf.tasks[i].failed + 1

\* C16: a failed item never aborts its batch: after the failure the items
\* that remained are all still to be attempted and the activity goes on,
\* and an activity returns only when nothing remains.
C16_FailedItemKeepsBatch ==
    [][\A i \in DOMAIN pf.tasks :
          /\ ItemFails(i) =>
                /\ pf'.tasks[i].todo = pf.tasks[i].todo
                /\ pf'.tasks[i].result = pf.tasks[i].result
          /\ ActivityReturns(i) => pf.tasks[i].todo = <<>>]_vars

\* a popular warm-up has returned after the listing and both of its two
\* popular packages were fetched, the two fetches having failed
C16_Witness ==
    /\ pf.tasks[1].pc = "done"
    /\ pf.tasks[1].activity = "popular"
    /\ pf.tasks[1].made = 3
    /\ pf.tasks[1].failed = 2
    /\ pf.popular_packages_cache["Formula"] = Some(<< <<"g">>, <<"h">> >>)

\* C17: every prefetch function returns Ok(()) whatever the calls made
\* inside it returned.
C17_FailuresNotSurfaced ==
    \A i \in DOMAIN pf.tasks :
       pf.tasks[i].pc = "done" => pf.tasks[i].result = Some(Ok("unit"))

-----------------------------------------------------------------------------
(* SpecEvict: a cache of capacity EvictCap under each of the four eviction  *)
(* strategies, one entry short of its capacity.  The entries were written  *)
(* at EvictCap - 1 distinct times, all with a long ttl or with the default *)
(* ttl, a long ttl and a ttl chrono cannot hold in turn, and the i-th was  *)
(* read i - 1 times at once.  Then writes of a stored key and of new keys, *)
(* reads of the stored key, and one more tick of the clock.                *)

EvictCap == 10

\* the ttl the i-th entry was written with
EvictTtl(mixed, i) ==
    CASE ~mixed -> TtlLong
      [] i % 3 = 0 -> DefaultTtl
      [] i % 3 = 1 -> TtlLong
      [] OTHER -> TtlHuge

InitEvict ==
    /\ NoRetry
    /\ NoFallback
    /\ NoService
    /\ NoRefresh
    /\ NoReads
    /\ NoPending
    /\ NoPrefetch
    /\ \E s \in Strategies :
          config = [default_ttl |-> DefaultTtl, max_entries |-> EvictCap, strategy |-> s]
    /\ \E mixed \in BOOLEAN :
          storage = [k \in {KeyOf(i) : i \in 1..(EvictCap - 1)} |->
                        LET i == CHOOSE j \in 1..(EvictCap - 1) : KeyOf(j) = k
                        IN  [NewEntry("l1", EvictTtl(mixed, i), <<>>, i - 1)
                                EXCEPT !.access_count = i - 1]]
    /\ now = EvictCap - 1
    /\ last = [op |-> "new", key |-> None, arg |-> None, ret |-> None, note |-> "Ok"]

\* a stored key and two new ones
EvictKeys == {KeyOf(1), KeyOf(EvictCap + 1), KeyOf(EvictCap + 2)}

\* the values and ttls written
EvictWrites == {<<"o1", None>>, <<"o1", Some(TtlHuge)>>, <<Unserializable, None>>}

NextEvict ==
    \/ \E k \in EvictKeys, w \in EvictWrites : Set(k, w[1], w[2])
    \/ \E k \in EvictKeys : SetWithTags(k, "l1", None, <<TagX>>)
    \/ Get(KeyOf(1), "Value")
    \/ Tick(EvictCap)

SpecEvict == InitEvict /\ [][NextEvict]_vars

\* a step that completes a set or a set_with_tags
Sets == last'.op \in {"set", "set_with_tags"}

\* now > created_at + ttl, written now - created_at > ttl
PastTtl(e, t) == t - e.created_at > e.ttl

\* C19: under TimeToLive a set issued at or over capacity removes exactly
\* the entries that are expired at that moment and no unexpired entry; when
\* none is expired it removes nothing, succeeds, and the size becomes
\* greater than max_entries.
C19_TtlEvictsExpiredOnly ==
    [][(/\ Sets
        /\ last'.arg[1] # Unserializable
        /\ config.strategy = "TimeToLive"
        /\ Cardinality(DOMAIN storage) >= config.max_entries) =>
          LET expired == {k \in DOMAIN storage : PastTtl(storage[k], now)}
          IN  /\ last'.note = "Ok"
              /\ DOMAIN storage' = (DOMAIN storage \ expired) \cup {last'.key}
              /\ \A k \in DOMAIN storage' \ {last'.key} : storage'[k] = storage[k]
              /\ expired = {} =>
                    Cardinality(DOMAIN storage') > config.max_entries]_vars

\* What holds instead: the entries removed are those is_expired gives, which
\* counts an entry whose ttl chrono cannot hold as expired once the clock has
\* moved, and the size grows only by a key that was not stored.
TtlEvictsWhatIsExpiredGives ==
    [][(/\ Sets
        /\ last'.arg[1] # Unserializable
        /\ config.strategy = "TimeToLive"
        /\ Cardinality(DOMAIN storage) >= config.max_entries) =>
          LET expired == {k \in DOMAIN storage : is_expired(storage[k], now)}
          IN  /\ last'.note = "Ok"
              /\ DOMAIN storage' = (DOMAIN storage \ expired) \cup {last'.key}
              /\ \A k \in DOMAIN storage' \ {last'.key} : storage'[k] = storage[k]
              /\ (expired = {} /\ last'.key \notin DOMAIN storage) =>
                    Cardinality(DOMAIN storage') > config.max_entries]_vars

-----------------------------------------------------------------------------
(* refresh_in_background (services/cache_manager.rs).  bg lists the tasks   *)
(* it has spawned: a task invokes refresh_fn, awaits it and stores what it *)
(* gave.                                                                    *)

\* the task spawned by refresh_in_background(key, refresh_fn), and what the
\* call returned to its caller
Spawned(key) ==
    [key |-> key, pc |-> "spawned", invoked |-> 0, returned |-> Ok("unit"),
     outcome |-> None]

\* mutant: a failed refresh drops the entry
refresh_store_DropOnError(cfg, st, key, outcome, t) ==
    IF outcome.ok /\ outcome.value # Unserializable
    THEN Insert(st, key, NewEntry(outcome.value, cfg.default_ttl, <<>>, t))
    ELSE Remove(st, {key})

\* the match on refresh_fn().await in the task, at time t on the map st:
\* Ok(data) that serde_json can encode is inserted as a new entry with the
\* default ttl, an error is logged
refresh_store(cfg, st, key, outcome, t) ==
    IF outcome.ok /\ outcome.value # Unserializable
    THEN Insert(st, key, NewEntry(outcome.value, cfg.default_ttl, <<>>, t))
    ELSE st

\* refresh_in_background(key, refresh_fn): the task is spawned and Ok(()) is
\* returned
RefreshInBackground(key, limit) ==
    /\ Len(bg) < limit
    /\ bg' = Append(bg, Spawned(key))
    /\ last' = [op |-> "refresh_in_background", key |-> key, arg |-> None,
                ret |-> Some("Ok"), note |-> "Ok"]
    /\ UNCHANGED <<config, storage, now, retryVars, fb, svc, pf, rd, pending>>

\* the task of position i is run: it invokes refresh_fn
RefreshFnInvoked(i) ==
    /\ bg[i].pc = "spawned"
    /\ bg' = [bg EXCEPT ![i].pc = "fetching", ![i].invoked = @ + 1]
    /\ last' = [op |-> "refresh_fn", key |-> bg[i].key, arg |-> None,
                ret |-> None, note |-> "Ok"]
    /\ UNCHANGED <<config, storage, now, retryVars, fb, svc, pf, rd, pending>>

\* refresh_fn().await completes with `outcome` in the task of position i
RefreshFnReturns(i, outcome) ==
    /\ bg[i].pc = "fetching"
    /\ bg' = [bg EXCEPT ![i].pc = "done", ![i].outcome = Some(outcome)]
    /\ storage' = refresh_store(config, storage, bg[i].key, outcome, now)
    /\ last' = [op |-> "refresh_task", key |-> bg[i].key, arg |-> None,
                ret |-> None, note |-> "Ok"]
    /\ UNCHANGED <<config, now, retryVars, fb, svc, pf, rd, pending>>

-----------------------------------------------------------------------------
(* SpecRefresh: writes with tags, background refreshes of two keys and the  *)
(* clock on a small cache; refresh_fn gives a value, a value serde_json    *)
(* cannot encode, or an error.                                             *)

MaxRefreshes == 2

RefreshOutcomes == {Ok("o1"), Ok(Unserializable), Err("NetworkError")}

InitRefresh ==
    NewCache([default_ttl |-> DefaultTtl, max_entries |-> SmallCap,
              strategy |-> "LeastRecentlyUsed"])

NextRefresh ==
    \/ \E k \in KeysAB : SetWithTags(k, "l1", Some(TtlLong), <<TagX>>)
    \/ \E k \in KeysAB : RefreshInBackground(k, MaxRefreshes)
    \/ \E i \in 1..MaxRefreshes : i <= Len(bg) /\ RefreshFnInvoked(i)
    \/ \E i \in 1..MaxRefreshes, o \in RefreshOutcomes :
          i <= Len(bg) /\ RefreshFnReturns(i, o)
    \/ Tick(MaxTime)

SpecRefresh == InitRefresh /\ [][NextRefresh]_vars

\* the task of position i ends in this step
RefreshEnds(i) == bg[i].pc = "fetching" /\ bg'[i].pc = "done"

\* C21: refresh_in_background(key, fetch) returns Ok(()) with fetch not yet
\* invoked and the map as it was; the task invokes fetch once; a failed
\* fetch leaves the map as it was and nothing is reported to the caller; the
\* map changes only by a successful fetch, which stores under key what was
\* fetched, created now with the default ttl, and changes no other entry.
C21_RefreshInBackground ==
    [][/\ last'.op = "refresh_in_background" =>
             /\ last'.ret = Some("Ok")
             /\ storage' = storage
             /\ bg'[Len(bg')].key = last'.key
             /\ bg'[Len(bg')].invoked = 0
       /\ \A i \in DOMAIN bg' : bg'[i].invoked <= 1 /\ bg'[i].returned = Ok("unit")
       /\ \A i \in DOMAIN bg :
             RefreshEnds(i) =>
                LET o == bg'[i].outcome[1]
                    k == bg[i].key
                IN  /\ bg'[i].invoked = 1
                    /\ ~o.ok => storage' = storage
                    /\ storage' # storage =>
                          /\ o.ok
                          /\ DOMAIN storage' = DOMAIN storage \cup {k}
                          /\ storage'[k].data = o.value
                          /\ storage'[k].created_at = now
                          /\ storage'[k].ttl = config.default_ttl
                          /\ \A j \in DOMAIN storage \ {k} : storage'[j] = storage[j]]_vars

\* one refresh of a stored key has failed and left the tagged entry, a later
\* one of another key has replaced the entry written at time 0
C21_Witness ==
    /\ Len(bg) = 2
    /\ bg[1].pc = "done" /\ ~bg[1].outcome[1].ok
    /\ bg[1].key \in DOMAIN storage /\ storage[bg[1].key].tags = <<TagX>>
    /\ bg[2].pc = "done" /\ bg[2].outcome[1].ok
    /\ bg[2].key # bg[1].key
    /\ last.op = "refresh_task"
    /\ bg[2].key \in DOMAIN storage
    /\ storage[bg[2].key].data = "o1"
    /\ storage[bg[2].key].created_at = now
    /\ now > 0

-----------------------------------------------------------------------------
(* SpecPattern: writes of three keys and invalidate_pattern with patterns   *)
(* of no, one and several `*`.                                              *)

\* patterns of two `*`, and one whose prefix and suffix overlap in "ab"
StarPatterns ==
    {<<"*", "a", "*">>, <<"a", "*", "*">>, <<"*", "b", "*">>, <<"a", "*", "b", "*">>,
     <<"a", "b", "*", "b">>}

InitPattern ==
    NewCache([default_ttl |-> DefaultTtl, max_entries |-> SmallCap,
              strategy |-> "LeastRecentlyUsed"])

NextPattern ==
    \/ \E k \in Keys, v \in Data : Set(k, v, None)
    \/ \E p \in Patterns \cup StarPatterns : InvalidatePattern(p)
    \/ Tick(MaxTime)

SpecPattern == InitPattern /\ [][NextPattern]_vars

\* text matches pattern as a glob: every `*` stands for any run of
\* characters, every other character for itself
RECURSIVE GlobMatches(_, _)
GlobMatches(pattern, text) ==
    IF pattern = <<>> THEN text = <<>>
    ELSE IF Head(pattern) = "*"
    THEN GlobMatches(Tail(pattern), text)
            \/ (text # <<>> /\ GlobMatches(pattern, Tail(text)))
    ELSE text # <<>> /\ Head(text) = Head(pattern)
            /\ GlobMatches(Tail(pattern), Tail(text))

\* C22: invalidate_pattern(p) removes exactly the entries whose key contains
\* p or matches p as a glob with any number of `*`, leaves every other entry
\* unchanged and returns the number of entries removed.
C22_InvalidatePatternGlob ==
    [][last'.op = "invalidate_pattern" =>
          LET p == last'.arg
              hit == {k \in DOMAIN storage : Contains(k, p) \/ GlobMatches(p, k)}
          IN  /\ DOMAIN storage' = DOMAIN storage \ hit
              /\ \A k \in DOMAIN storage' : storage'[k] = storage[k]
              /\ last'.ret = Some(Cardinality(hit))]_vars

\* The same statement for the patterns of at most one `*` whose prefix and
\* suffix fit in the key one after the other: it holds.
InvalidatePatternOneStar ==
    [][(/\ last'.op = "invalidate_pattern"
        /\ Cardinality(StarPositions(last'.arg)) <= 1
        /\ \A k \in DOMAIN storage : Len(last'.arg) - 1 <= Len(k)) =>
          LET p == last'.arg
              hit == {k \in DOMAIN storage : Contains(k, p) \/ GlobMatches(p, k)}
          IN  /\ DOMAIN storage' = DOMAIN storage \ hit
              /\ \A k \in DOMAIN storage' : storage'[k] = storage[k]
              /\ last'.ret = Some(Cardinality(hit))]_vars

-----------------------------------------------------------------------------
(* SpecDetailTags: the three reads of the facade for both package types,    *)
(* each made while its key is not stored and answered by the catalog, and  *)
(* invalidate_by_tags with the name of a package.                          *)

\* a read of the facade from the lookup to the store, in one step
ReadsThrough(op, package_type, arg, remote, mode, n) ==
    LET c == Item(op, package_type, arg, "item")
    IN  /\ cache_key(op, package_type, arg) \notin DOMAIN storage
        /\ \E r \in FacadeRead(config, storage, c, remote, mode, n, now) :
              /\ storage' = r.st
              /\ last' = [op |-> op, key |-> Some(cache_key(op, package_type, arg)),
                          arg |-> Some(c), ret |-> Some(r.result), note |-> "Ok"]
        /\ UNCHANGED <<config, now, retryVars, fb, svc, pf, bg, rd, pending>>

DetailNames == {<<"g">>, <<"h">>}

InitDetailTags ==
    NewCache([default_ttl |-> DefaultConfigTtl, max_entries |-> DefaultMaxEntries,
              strategy |-> "LeastRecentlyUsed"])

NextDetailTags ==
    \/ \E pt \in PackageTypes : ReadsThrough("get_packages", pt, None, "catalog", "up", 1)
    \/ \E pt \in PackageTypes, q \in Names :
          ReadsThrough("search_packages", pt, q, "catalog", "up", 1)
    \/ \E pt \in PackageTypes, name \in DetailNames :
          ReadsThrough("get_package_details", pt, name, "catalog", "up", 1)
    \/ \E name \in DetailNames : InvalidateByTags(<<name>>)

SpecDetailTags == InitDetailTags /\ [][NextDetailTags]_vars

\* the key of the detail entry of (name, package_type)
DetailsKey(package_type, name) == cache_key("get_package_details", package_type, name)

\* C23: invalidate_by_tags({name}) removes the detail entry that
\* get_package_details(name, type) cached and no other entry.
C23_NameTagDropsOneDetailView ==
    [][last'.op = "invalidate_by_tags" =>
          \A pt \in PackageTypes :
             DetailsKey(pt, last'.arg[1]) \in DOMAIN storage =>
                DOMAIN storage' = DOMAIN storage \ {DetailsKey(pt, last'.arg[1])}]_vars

\* What it removes is the detail entries of the name of both types, and no
\* listing, search result or detail entry of another name: this holds.
NameTagDropsBothTypes ==
    [][last'.op = "invalidate_by_tags" =>
          /\ DOMAIN storage' =
                DOMAIN storage \ {DetailsKey(pt, last'.arg[1]) : pt \in PackageTypes}
          /\ \A k \in DOMAIN storage' : storage'[k] = storage[k]]_vars

-----------------------------------------------------------------------------
(* SpecSweep: the cache with the background cleanup of                      *)
(* start_background_cleanup; SpecSweepFair adds that the task, which loops *)
(* on its interval for as long as the runtime lives, is run again and      *)
(* again.                                                                  *)

\* the ttls written: the default, and one chrono cannot hold
SweepTtls == {None, Some(TtlHuge)}

InitSweep ==
    NewCache([default_ttl |-> DefaultTtl, max_entries |-> SmallCap,
              strategy |-> "LeastRecentlyUsed"])

NextSweep ==
    \/ \E k \in KeysAB, t \in SweepTtls : Set(k, "l1", t)
    \/ \E k \in KeysAB : Get(k, "Value")
    \/ Clear
    \/ Sweep
    \/ Tick(MaxTime)

SpecSweep == InitSweep /\ [][NextSweep]_vars

SpecSweepFair == SpecSweep /\ WF_vars(Sweep)

\* the entry of key k is stored and past its ttl
StoredExpired(k) == k \in DOMAIN storage /\ PastTtl(storage[k], now)

-----------------------------------------------------------------------------
(* SpecConfig: update_config with other values of max_concurrent_requests,  *)
(* related warm-ups that acquire, call and return, and                     *)
(* should_allow_prefetch.                                                   *)

\* the values update_config is called with
ConcurrencyInputs == {DefaultMaxConcurrent - 1, DefaultMaxConcurrent + 1}

InitConfig == InitPrefetchService(PermitSlots)

NextConfig ==
    \/ \E m \in ConcurrencyInputs :
          UpdateConfig([DefaultPrefetchConfig EXCEPT !.max_concurrent_requests = m])
    \/ \E p \in Priorities : ShouldAllowPrefetch(p)
    \/ \E i \in PermitSlots, name \in Names, pt \in CalledTypes :
          NextSlot(i) /\ PrefetchRelatedPackages(i, name, pt)
    \/ \E i \in PermitSlots : Acquire(i)
    \/ \E i \in PermitSlots : Calls(i)
    \/ \E i \in PermitSlots, remote \in PermitRemotes : Returns(i, remote, "down", 0)
    \/ \E i \in PermitSlots : Finishes(i)

SpecConfig == InitConfig /\ [][NextConfig]_vars

\* the activities that hold a permit of the semaphore
Holders(p) == {i \in DOMAIN p.tasks : p.tasks[i].holds}

\* C25: once update_config has set max_concurrent_requests to m, a permit is
\* acquired only while fewer than m units hold one, and
\* should_allow_prefetch returns false when m units hold one.
C25_BoundFollowsConfig ==
    [][/\ pf'.permits < pf.permits =>
             Cardinality(Holders(pf')) <= pf.config.max_concurrent_requests
       /\ (/\ last'.op = "should_allow_prefetch"
           /\ Cardinality(Holders(pf)) >= pf.config.max_concurrent_requests) =>
             last'.ret = Some(FALSE)]_vars

\* The bound that is enforced is the one PrefetchService::new made the
\* semaphore with: this holds.
BoundIsTheDefault ==
    /\ Cardinality(Holders(pf)) + pf.permits = DefaultMaxConcurrent
    /\ pf.permits >= 0

-----------------------------------------------------------------------------
(* SpecBackground: listings read through the facade, the clock, and         *)
(* background refreshes, one at a time, whose calls the catalog answers or *)
(* not.                                                                     *)

\* the clock runs until a listing read at time 0 has expired
BackgroundMaxTime == PackagesTtl + 1

InitBackground == InitPrefetchService({1})

NextBackground ==
    \/ \E pt \in PackageTypes : ReadsThrough("get_packages", pt, None, "catalog", "up", 1)
    \/ Tick(BackgroundMaxTime)
    \/ Within(MaxRuns) /\ BackgroundRefreshStaleData(1)
    \/ ChecksListing(1)
    \/ Acquire(1)
    \/ Calls(1)
    \/ \E remote \in {"catalog", "NetworkError"}, mode \in {"up", "down"} :
          Returns(1, remote, mode, 1)
    \/ Finishes(1)

SpecBackground == InitBackground /\ [][NextBackground]_vars

\* the key of the listing of a package type
ListingKey(package_type) == cache_key("get_packages", package_type, None)

\* the call of get_packages the background refresh of slot i made for a
\* listing returns in this step, the listing being stored and within its ttl
RefreshReturns(i) ==
    /\ pf.tasks[i].pc = "calling"
    /\ pf.tasks[i].current[1].role = "refresh"
    /\ pf'.tasks[i].pc = "ready"
    /\ ListingKey(pf.tasks[i].current[1].package_type) \in DOMAIN storage
    /\ ~PastTtl(storage[ListingKey(pf.tasks[i].current[1].package_type)], now)

\* C26: a background refresh re-fetches each listing that is cached and
\* unexpired: the catalog or the local tool is asked for it, and the
\* listing stored afterwards is created at that moment.
C26_RefreshRefetchesListing ==
    [][\A i \in DOMAIN pf.tasks :
          RefreshReturns(i) =>
             LET k == ListingKey(pf.tasks[i].current[1].package_type)
             IN  /\ pf'.tasks[i].fetched = pf.tasks[i].fetched + 1
                 /\ k \in DOMAIN storage'
                 /\ storage'[k].created_at = now]_vars

\* What the call does to such a listing is one more read of it: this holds.
RefreshReadsListing ==
    [][\A i \in DOMAIN pf.tasks :
          RefreshReturns(i) =>
             LET k == ListingKey(pf.tasks[i].current[1].package_type)
             IN  /\ pf'.tasks[i].fetched = pf.tasks[i].fetched
                 /\ storage' = [storage EXCEPT ![k] = Access(@, now)]]_vars

-----------------------------------------------------------------------------
(* SpecThrottle: popular warm-ups of one package type, up to two at a time  *)
(* and ThrottleRuns in all, with the clock; the catalog answers or the     *)
(* network is down, the local tool cannot be run.                          *)

ThrottleRuns == 3

ThrottleSlots == {1, 2}

\* the clock runs until the throttle window of a run that returned at 0 or
\* at 1 is over
ThrottleMaxTime == PopularThrottle + 1

\* the slot i is the first free one
FirstFree(i) == Free(i) /\ \A j \in DOMAIN pf.tasks : j < i => ~Free(j)

InitThrottle == InitPrefetchService(ThrottleSlots)

NextThrottle ==
    \/ \E i \in ThrottleSlots, pt \in CalledTypes :
          Within(ThrottleRuns) /\ FirstFree(i) /\ PrefetchPopularPackages(i, pt)
    \/ \E i \in ThrottleSlots : TakeLock(i)
    \/ \E i \in ThrottleSlots : Acquire(i)
    \/ \E i \in ThrottleSlots : Calls(i)
    \/ \E i \in ThrottleSlots, remote \in {"catalog", "NetworkError"} :
          Returns(i, remote, "down", 0)
    \/ \E i \in ThrottleSlots : Finishes(i)
    \/ Tick(ThrottleMaxTime)

SpecThrottle == InitThrottle /\ [][NextThrottle]_vars

\* the popular warm-up of slot i finds itself inside the throttle window of
\* its package type in this step
Throttled(i) ==
    /\ pf.tasks[i].pc = "lock"
    /\ pf'.tasks[i].pc # "lock"
    /\ pf.runs[pf.tasks[i].package_type] # <<>>
    /\ LET r == pf.runs[pf.tasks[i].package_type]
       IN  r[Len(r)].end = None \/ now - r[Len(r)].end[1] < PopularThrottle

\* C27: for each package type, a run of the warm-up body begins only when
\* every earlier run of that type has returned, failed or not, and at least
\* PopularThrottle minutes have passed since; an invocation inside the
\* window returns Ok(()) having called the facade not once.
C27_PopularThrottle ==
    [][/\ \A pt \in PackageTypes :
             \A j, k \in DOMAIN pf'.runs[pt] :
                j < k =>
                   /\ pf'.runs[pt][j].end # None
                   /\ pf'.runs[pt][k].start - pf'.runs[pt][j].end[1] >= PopularThrottle
       /\ \A i \in DOMAIN pf.tasks :
             Throttled(i) =>
                /\ pf'.tasks[i].pc = "done"
                /\ pf'.tasks[i].result = Some(Ok("unit"))
                /\ pf'.tasks[i].made = 0
                /\ pf'.runs = pf.runs]_vars

\* a run of the warm-up failed at time 0, an invocation inside the window
\* has returned without a call, and a second run has begun after the window
C27_Witness ==
    /\ Len(pf.runs["Formula"]) = 2
    /\ pf.runs["Formula"][1].end = Some(0)
    /\ pf.stats.failed_requests = 1
    /\ pf.runs["Formula"][2].start = PopularThrottle
    /\ \E i \in DOMAIN pf.tasks :
          /\ pf.tasks[i].activity = "popular"
          /\ pf.tasks[i].pc = "done"
          /\ pf.tasks[i].made = 0

-----------------------------------------------------------------------------
(* SpecPopular: popular warm-ups, one at a time, on a catalog of            *)
(* PopularTake + 1 packages whose install counts rise or fall with the     *)
(* names, or rise with every second one under the threshold; the catalog   *)
(* lists them in the order of the names or in the reverse order, and      *)
(* answers every call.                                                     *)

PopularCount == PopularTake + 1

DownloadPatterns == {"rising", "falling", "alternating"}

\* downloads_365d of the i-th package
DownloadsOf(pattern, i) ==
    CASE pattern = "rising" -> DefaultPopularityThreshold + i
      [] pattern = "falling" -> DefaultPopularityThreshold + PopularCount + 1 - i
      [] OTHER -> IF i % 2 = 0 THEN DefaultPopularityThreshold + i
                  ELSE DefaultPopularityThreshold - i

\* the listings of the catalog
PopularListings ==
    {[j \in 1..PopularCount |->
         LET i == IF reversed THEN PopularCount + 1 - j ELSE j
         IN  [name |-> KeyOf(i), downloads_365d |-> DownloadsOf(pattern, i)]] :
       pattern \in DownloadPatterns, reversed \in BOOLEAN}

InitPopular ==
    /\ NoRetry
    /\ NoFallback
    /\ NoService
    /\ NoRefresh
    /\ NoReads
    /\ NoPending
    /\ config = [default_ttl |-> DefaultConfigTtl, max_entries |-> DefaultMaxEntries,
                 strategy |-> "LeastRecentlyUsed"]
    /\ storage = <<>>
    /\ now = 0
    /\ last = PfOther
    /\ \E l \in PopularListings : pf = [NewPrefetch({1}) EXCEPT !.listing = l]

NextPopular ==
    \/ \E pt \in CalledTypes : Within(MaxRuns) /\ PrefetchPopularPackages(1, pt)
    \/ TakeLock(1)
    \/ Acquire(1)
    \/ Calls(1)
    \/ Returns(1, "catalog", "up", 1)
    \/ Finishes(1)
    \/ Free(1) /\ Tick(ThrottleMaxTime)

SpecPopular == InitPopular /\ [][NextPopular]_vars

\* the popular warm-up of slot i has the popular names in this step, from
\* the listing it read or from popular_packages_cache, and goes on to fetch
\* the details
Plans(i) ==
    /\ pf.tasks[i].activity = "popular"
    /\ pf'.tasks[i].pc = "ready"
    /\ \/ /\ pf.tasks[i].pc = "calling"
          /\ pf.tasks[i].current[1].role = "list"
          /\ pf'.popular_packages_cache[pf.tasks[i].package_type] # None
       \/ /\ pf.tasks[i].pc = "acquire"
          /\ pf.popular_packages_cache[pf.tasks[i].package_type] # None

\* the names of the packages whose details the activity is to fetch
Planned(t) == {t.todo[j].arg : j \in 1..Len(t.todo)}

\* the names of the n packages of the highest downloads_365d among those
\* over the threshold, all of them when they are fewer
TopByDownloads(packages, threshold, n) ==
    LET over == {j \in 1..Len(packages) : packages[j].downloads_365d > threshold}
    IN  {packages[j].name :
            j \in {k \in over :
                      Cardinality({m \in over : packages[m].downloads_365d
                                                   > packages[k].downloads_365d}) < n}}

\* C28: the popular warm-up fetches the details of at most PopularTake
\* packages per run, and they are the PopularTake packages of the highest
\* downloads_365d among those over popularity_threshold.
C28_TopTenByInstalls ==
    [][\A i \in DOMAIN pf.tasks :
          Plans(i) =>
             /\ Len(pf'.tasks[i].todo) <= PopularTake
             /\ Planned(pf'.tasks[i]) =
                   TopByDownloads(pf.listing, pf.config.popularity_threshold,
                                  PopularTake)]_vars

\* They are at most PopularTake packages over the threshold, the first of
\* them in the order of their names: this holds.
FirstTenByName ==
    [][\A i \in DOMAIN pf.tasks :
          Plans(i) =>
             LET over == {pf.listing[j].name :
                             j \in {k \in 1..Len(pf.listing) :
                                       pf.listing[k].downloads_365d
                                          > pf.config.popularity_threshold}}
                 planned == Planned(pf'.tasks[i])
             IN  /\ Len(pf'.tasks[i].todo) <= PopularTake
                 /\ planned \subseteq over
                 /\ Cardinality(planned) = Min(PopularTake, Cardinality(over))
                 /\ \A a \in planned : \A b \in over \ planned : StrLess(a, b)]_vars

-----------------------------------------------------------------------------
(* SpecPredictive: predictive prefetches, one at a time, while network      *)
(* reports arrive; the catalog answers or the network is down, the local   *)
(* tool answers.                                                            *)

\* the reports update_network_conditions is called with
PredictiveReports ==
    {[connection_type |-> "wifi", effective_type |-> "4g", save_data |-> FALSE],
     [connection_type |-> "wifi", effective_type |-> "4g", save_data |-> TRUE],
     [connection_type |-> "cellular", effective_type |-> "2g", save_data |-> FALSE]}

InitPredictive == InitPrefetchService({1})

NextPredictive ==
    \/ \E ps \in PrefetchPatterns : Within(MaxRuns) /\ PredictivePrefetch(1, ps)
    \/ Calls(1)
    \/ \E remote \in {"catalog", "NetworkError"} : Returns(1, remote, "up", 1)
    \/ Finishes(1)
    \/ \E c \in PredictiveReports : UpdateNetworkConditions(c)

SpecPredictive == InitPredictive /\ [][NextPredictive]_vars

\* the predictive prefetch of slot i issues a search or a detail fetch in
\* this step
PredictiveCalls(i) ==
    /\ pf.tasks[i].activity = "predictive"
    /\ pf.tasks[i].pc = "ready"
    /\ pf'.tasks[i].pc = "calling"

\* a search of the predictive prefetch of slot i returns in this step
SearchReturns(i) ==
    /\ pf.tasks[i].activity = "predictive"
    /\ pf.tasks[i].pc = "calling"
    /\ pf.tasks[i].current[1].role = "search"
    /\ pf'.tasks[i].pc = "ready"

\* C29: a predictive prefetch issues a search or a detail fetch only while
\* should_allow_prefetch(Low) holds, and after a search it fetches the
\* details of at most ResultTake of its results.
C29_EachCallGated ==
    [][\A i \in DOMAIN pf.tasks :
          /\ PredictiveCalls(i) =>
                should_allow_prefetch(pf.config, pf.network, "Low", pf.permits)
          /\ SearchReturns(i) =>
                Len(pf'.tasks[i].todo) <= Len(pf.tasks[i].todo) + ResultTake]_vars

\* The check is made at the entry of the run, and at most ResultTake
\* details are fetched for a search: this holds.
GatedAtEntryOnly ==
    [][\A i \in DOMAIN pf.tasks :
          /\ (pf'.tasks[i].activity = "predictive" /\ Free(i) /\ pf'.tasks[i].pc = "ready")
                => should_allow_prefetch(pf.config, pf.network, "Low", pf.permits)
          /\ SearchReturns(i) =>
                Len(pf'.tasks[i].todo) <= Len(pf.tasks[i].todo) + ResultTake]_vars

-----------------------------------------------------------------------------
(* SpecDenied: the four activities, each slot called once, while the        *)
(* configuration is switched off and on and a 3g connection is reported;   *)
(* the network is down and the local tool cannot be run.                   *)

\* the configurations update_config is called with
DeniedConfigs == {DefaultPrefetchConfig, [DefaultPrefetchConfig EXCEPT !.enabled = FALSE]}

\* the report update_network_conditions is called with
DeniedReports ==
    {[connection_type |-> "wifi", effective_type |-> "3g", save_data |-> FALSE]}

InitDenied == InitPrefetchService(PermitSlots)

NextDenied ==
    \/ \E c \in DeniedConfigs : UpdateConfig(c)
    \/ \E c \in DeniedReports : UpdateNetworkConditions(c)
    \/ \E i \in PermitSlots, pt \in CalledTypes :
          NextSlot(i) /\ PrefetchPopularPackages(i, pt)
    \/ \E i \in PermitSlots, pt \in CalledTypes, name \in Names :
          NextSlot(i) /\ PrefetchRelatedPackages(i, name, pt)
    \/ \E i \in PermitSlots : NextSlot(i) /\ BackgroundRefreshStaleData(i)
    \/ \E i \in PermitSlots, ps \in PermitPatterns :
          NextSlot(i) /\ PredictivePrefetch(i, ps)
    \/ \E i \in PermitSlots : TakeLock(i)
    \/ \E i \in PermitSlots : Acquire(i)
    \/ \E i \in PermitSlots : Calls(i)
    \/ \E i \in PermitSlots, remote \in PermitRemotes : Returns(i, remote, "down", 0)
    \/ \E i \in PermitSlots : Finishes(i)

SpecDenied == InitDenied /\ [][NextDenied]_vars

\* the priority an activity asks should_allow_prefetch with
PriorityOf(activity) == IF activity = "popular" THEN "Medium" ELSE "Low"

\* the activity of slot i is called in this step and should_allow_prefetch
\* denies it
Denied(i) ==
    /\ Free(i)
    /\ pf'.started = pf.started + 1
    /\ pf'.tasks[i] # pf.tasks[i]
    /\ ~should_allow_prefetch(pf.config, pf.network,
                              PriorityOf(pf'.tasks[i].activity), pf.permits)

\* C30: an activity that should_allow_prefetch denies returns Ok(()) at
\* once: it has called the facade not once and holds no permit, and the
\* cache, the permits, PrefetchStats, popular_packages_cache and
\* last_prefetch_time are as they were.
C30_DeniedHasNoEffect ==
    [][\A i \in DOMAIN pf.tasks :
          Denied(i) =>
             /\ pf'.tasks[i].pc = "done"
             /\ pf'.tasks[i].result = Some(Ok("unit"))
             /\ pf'.tasks[i].made = 0
             /\ ~pf'.tasks[i].holds
             /\ pf'.permits = pf.permits
             /\ pf'.lock = pf.lock
             /\ storage' = storage
             /\ pf'.stats = pf.stats
             /\ pf'.popular_packages_cache = pf.popular_packages_cache
             /\ pf'.last_prefetch_time = pf.last_prefetch_time]_vars

\* a popular warm-up has been denied on a 3g connection while a related
\* warm-up held a permit: it returned without getting to its throttle
C30_Witness ==
    /\ pf.network # None
    /\ pf.config.enabled
    /\ \E i, k \in DOMAIN pf.tasks :
          /\ pf.tasks[i].activity = "popular"
          /\ pf.tasks[i].pc = "done"
          /\ pf.tasks[i].made = 0
          /\ pf.tasks[k].activity = "related"
          /\ pf.tasks[k].holds
          /\ k < i
    /\ pf.runs["Formula"] = <<>>
    /\ pf.stats.total_requests = 0

-----------------------------------------------------------------------------
(* SpecEntry: the fields of the stored entries under reads, writes, tagged  *)
(* writes, removals, the sweep, size and stats.                            *)

RECURSIVE SumOver(_, _)
\* the sum of f[k] over the domain of f (a fold over storage.iter())
SumOver(f, ks) ==
    IF ks = {} THEN 0
    ELSE LET k == CHOOSE x \in ks : TRUE
         IN  f[k] + SumOver(f, ks \ {k})

\* CacheEntry::age at time t, in whole seconds and never negative
age(e, t) == IF t - e.created_at < 0 THEN 0 ELSE t - e.created_at

\* CacheManager::stats at time t on map st
stats(st, t) ==
    LET n == Cardinality(DOMAIN st)
    IN  <<n,
          Cardinality({k \in DOMAIN st : is_expired(st[k], t)}),
          SumOver([k \in DOMAIN st |-> st[k].access_count], DOMAIN st),
          IF n > 0 THEN SumOver([k \in DOMAIN st |-> age(st[k], t)], DOMAIN st) \div n
          ELSE 0>>

\* CacheManager::size
Size ==
    /\ last' = [op |-> "size", key |-> None, arg |-> None,
                ret |-> Some(Cardinality(DOMAIN storage)), note |-> "Ok"]
    /\ UNCHANGED <<config, storage, now, overflow_checks, retry, fb, svc, pf, bg, rd, pending>>

\* CacheManager::stats; entry_count, expired_count, total_access_count and
\* average_age are reported in note
Stats ==
    /\ last' = [op |-> "stats", key |-> None, arg |-> None,
                ret |-> None, note |-> stats(storage, now)]
    /\ UNCHANGED <<config, storage, now, overflow_checks, retry, fb, svc, pf, bg, rd, pending>>

InitEntry ==
    NewCache([default_ttl |-> DefaultTtl, max_entries |-> SmallCap,
              strategy |-> "LeastRecentlyUsed"])

NextEntry ==
    \/ \E k \in KeysAB, T \in ReadTypes : Get(k, T)
    \/ \E k \in KeysAB, t \in SweepTtls : Set(k, "l1", t)
    \/ \E k \in KeysAB : SetWithTags(k, "o1", None, <<TagX>>)
    \/ \E k \in KeysAB : Invalidate(k)
    \/ InvalidateByTags(<<TagX>>)
    \/ Sweep
    \/ Size
    \/ Stats
    \/ Tick(MaxTime)

SpecEntry == InitEntry /\ [][NextEntry]_vars

\* the step is a get of key k that returns the stored value
GetReturnsValue(k) ==
    /\ last'.op = "get"
    /\ last'.key = k
    /\ last'.ret # None

\* the step is a set or set_with_tags that stores a new entry under key k
Overwrites(k) ==
    /\ last'.op \in {"set", "set_with_tags"}
    /\ last'.key = k
    /\ last'.note = "Ok"

\* C31: every stored entry has last_accessed >= created_at; while an entry
\* is neither removed nor overwritten, a get that returns its value adds
\* exactly 1 to access_count and sets last_accessed to the time of the
\* read, and every other operation leaves both fields as they are (so
\* access_count never decreases).
C31_EntryFields ==
    [][/\ \A k \in DOMAIN storage' :
             storage'[k].last_accessed >= storage'[k].created_at
       /\ \A k \in DOMAIN storage \cap DOMAIN storage' :
             IF Overwrites(k) THEN TRUE
             ELSE IF GetReturnsValue(k)
             THEN /\ storage'[k].access_count = storage[k].access_count + 1
                  /\ storage'[k].last_accessed = now
             ELSE /\ storage'[k].access_count = storage[k].access_count
                  /\ storage'[k].last_accessed = storage[k].last_accessed]_vars

\* an entry written at time 0 has been read after the clock moved, and then
\* stats ran with the entry still stored
C31_Witness ==
    /\ last.op = "stats"
    /\ \E k \in DOMAIN storage :
          /\ storage[k].access_count = MaxAccess
          /\ storage[k].created_at = 0
          /\ storage[k].last_accessed > 0

-----------------------------------------------------------------------------
(* SpecRace: concurrent calls of get_packages, each followed from its       *)
(* lookup through its fetch to its store, while install, uninstall and     *)
(* update run.  rd.installed tells whether the local tool lists package g  *)
(* of type Formula as installed; rd.calls holds the calls.                 *)

\* the callers of get_packages: an interactive read, a prefetch activity
Callers == {1, 2}

\* the package whose installation the listings report
TrackedName == <<"g">>

TrackedType == "Formula"

\* a caller that has not called (raced records that a mutation of the
\* package type of the call succeeded after the call had fetched its value
\* and before it stored it)
ReadIdle ==
    [pc |-> "idle", package_type |-> TrackedType, cached |-> FALSE, value |-> None,
     result |-> None, raced |-> FALSE]

\* parse_api_package(data, package_type, &installed, &outdated): the
\* listing of the catalog with the flags of list_installed, which is empty
\* when the tool fails (unwrap_or_default)
Listed(value, package_type, installed, mode) ==
    IF /\ value = "catalog_packages"
       /\ package_type = TrackedType
       /\ installed
       /\ list_installed(mode).outcome.ok
    THEN "catalog_packages_with_g"
    ELSE value

\* get_packages is called: the lookup of the cache
GetPackagesLooksUp(c, package_type) ==
    LET key == cache_key("get_packages", package_type, None)
        o == GetOutcome(storage, key, read_type("get_packages"), now)
    IN  /\ rd.calls[c].pc \in {"idle", "done"}
        /\ o.note = "hit" => storage[key].access_count < MaxAccess
        /\ storage' = o.st
        /\ last' = [op |-> "get", key |-> key, arg |-> read_type("get_packages"),
                    ret |-> o.ret, note |-> o.note]
        /\ rd' = [rd EXCEPT !.calls[c] =
                     IF o.ret # None
                     THEN [ReadIdle EXCEPT !.pc = "done", !.package_type = package_type,
                                           !.cached = TRUE,
                                           !.result = Some(Ok(o.ret[1]))]
                     ELSE [ReadIdle EXCEPT !.pc = "fetching",
                                           !.package_type = package_type]]
        /\ UNCHANGED <<config, now, retryVars, fb, svc, pf, bg, pending>>

\* with_fallback(fetch_packages_from_api, fetch_packages_from_brew) returns
\* to the call; an error leaves get_packages by `?`
GetPackagesFetches(c, remote, mode, n) ==
    LET call == rd.calls[c]
        p == PrimaryReturns(FallbackEntered,
                            Primary("get_packages", remote, mode).outcome)
        f == IF p.pc = "done" THEN p
             ELSE FallbackReturns(p, Fallback("get_packages", mode, n).outcome)
        r == f.result[1]
    IN  /\ call.pc = "fetching"
        /\ rd' = [rd EXCEPT !.calls[c] =
                     IF r.ok
                     THEN [call EXCEPT !.pc = "fetched",
                                       !.value = Some(Listed(r.value, call.package_type,
                                                             rd.installed, mode))]
                     ELSE [call EXCEPT !.pc = "done", !.result = Some(r)]]
        /\ last' = [op |-> "with_fallback", key |-> None, arg |-> None, ret |-> None,
                    note |-> IF r.ok THEN "Ok" ELSE r.kind]
        /\ UNCHANGED <<config, storage, now, retryVars, fb, svc, pf, bg, pending>>

\* mutant: a value fetched before an invalidation is not stored
late_write_Discarded(cfg, st, call, t) ==
    IF call.raced THEN {[ret |-> "Ok", st |-> st]}
    ELSE SetOutcomes(cfg, st, cache_key("get_packages", call.package_type, None),
                     call.value[1], Some(PackagesTtl),
                     cache_tags("get_packages", call.package_type, None), t)

\* self.cache.set_with_tags(&cache_key, &packages, Some(300 s), cache_tags)
\* with the packages the call fetched
late_write(cfg, st, call, t) ==
    SetOutcomes(cfg, st, cache_key("get_packages", call.package_type, None),
                call.value[1], Some(PackagesTtl),
                cache_tags("get_packages", call.package_type, None), t)

\* the call stores what it fetched and returns it
GetPackagesStores(c) ==
    LET call == rd.calls[c]
    IN  /\ call.pc = "fetched"
        /\ \E s \in late_write(config, storage, call, now) :
              /\ storage' = s.st
              /\ rd' = [rd EXCEPT !.calls[c] =
                           [call EXCEPT !.pc = "done",
                                        !.result = Some(IF s.ret = "Ok"
                                                        THEN Ok(call.value[1])
                                                        ELSE Err(s.ret))]]
        /\ last' = [op |-> "set_with_tags", key |-> None, arg |-> None, ret |-> None,
                    note |-> "Ok"]
        /\ UNCHANGED <<config, now, retryVars, fb, svc, pf, bg, pending>>

\* what the local tool lists after the command `op` on the tracked package
InstalledAfter(op, installed) ==
    CASE op = "install_package" -> TRUE
      [] op = "uninstall_package" -> FALSE
      [] OTHER -> installed

\* install_package, uninstall_package or update_package(name, package_type)
\* while calls of get_packages are in progress
MutateDuring(op, package_type, name, mode) ==
    LET run == brew_mutation(op, mode)
        ok == run.outcome.ok
    IN  /\ storage' = CachesAfter(storage, run.outcome, package_type, name)
        /\ rd' = [installed |->
                     IF ok /\ package_type = TrackedType /\ name = TrackedName
                     THEN InstalledAfter(op, rd.installed) ELSE rd.installed,
                  calls |->
                     [c \in DOMAIN rd.calls |->
                        IF /\ ok
                           /\ rd.calls[c].pc = "fetched"
                           /\ rd.calls[c].package_type = package_type
                        THEN [rd.calls[c] EXCEPT !.raced = TRUE]
                        ELSE rd.calls[c]]]
        /\ last' = [op |-> op, key |-> None, arg |-> None, ret |-> None,
                    note |-> IF ok THEN "Ok" ELSE run.outcome.kind]
        /\ UNCHANGED <<config, now, retryVars, fb, svc, pf, bg, pending>>

RaceMaxTime == PackagesTtl + 1

InitRace ==
    /\ NoRetry
    /\ NoFallback
    /\ NoService
    /\ NoRefresh
    /\ NoPrefetch
    /\ config = [default_ttl |-> DefaultConfigTtl, max_entries |-> DefaultMaxEntries,
                 strategy |-> "LeastRecentlyUsed"]
    /\ storage = <<>>
    /\ now = 0
    /\ last = [op |-> "new", key |-> None, arg |-> None, ret |-> None, note |-> "Ok"]
    /\ rd = [installed |-> FALSE, calls |-> [c \in Callers |-> ReadIdle]]
    /\ NoPending

NextRace ==
    \/ \E c \in Callers : GetPackagesLooksUp(c, TrackedType)
    \/ \E c \in Callers, remote \in {"catalog", "NetworkError"} :
          GetPackagesFetches(c, remote, "up", 1)
    \/ \E c \in Callers : GetPackagesStores(c)
    \/ \E op \in MutatingOps, pt \in PackageTypes, mode \in {"up", "failing"} :
          MutateDuring(op, pt, TrackedName, mode)
    \/ Tick(RaceMaxTime)

SpecRace == InitRace /\ [][NextRace]_vars

\* the call of caller c stores what it fetched, in this step
StoresFetched(c) == rd.calls[c].pc = "fetched" /\ rd'.calls[c].pc = "done"

\* caller c calls get_packages in this step, the listing of the type being
\* stored and within its ttl
LooksUpFresh(c, package_type) ==
    /\ rd.calls[c].pc \in {"idle", "done"}
    /\ rd'.calls[c] # rd.calls[c]
    /\ last'.op = "get"
    /\ last'.key = ListingKey(package_type)
    /\ ListingKey(package_type) \in DOMAIN storage
    /\ ~PastTtl(storage[ListingKey(package_type)], now)

\* C32: a call of get_packages that fetched its packages stores them under
\* the listing key with a new ttl, whether or not install, uninstall or
\* update invalidated that key after the fetch, and a call made while that
\* entry is within its ttl returns the stored packages, whatever the local
\* tool lists by then.
C32_LateWriteWins ==
    [][\A c \in Callers :
          /\ StoresFetched(c) =>
                LET key == ListingKey(rd.calls[c].package_type)
                IN  /\ key \in DOMAIN storage'
                    /\ storage'[key].data = rd.calls[c].value[1]
                    /\ storage'[key].created_at = now
                    /\ rd'.calls[c].result = Some(Ok(rd.calls[c].value[1]))
          /\ LooksUpFresh(c, TrackedType) =>
                /\ rd'.calls[c].cached
                /\ rd'.calls[c].result = Some(Ok(storage[ListingKey(TrackedType)].data))]_vars

\* a call fetched the listing, the package was then installed or
\* uninstalled and the listing invalidated, the call stored its listing,
\* and a later call was given that listing from the cache
C32_Witness ==
    /\ last.op = "get"
    /\ \E c1, c2 \in Callers :
          /\ c1 # c2
          /\ rd.calls[c1].pc = "done" /\ rd.calls[c1].raced
          /\ rd.calls[c2].pc = "done" /\ rd.calls[c2].cached
          /\ rd.calls[c2].result = rd.calls[c1].result
          /\ rd.calls[c1].result[1].ok
          /\ rd.calls[c1].result[1].value # Listed("catalog_packages", TrackedType,
                                                    rd.installed, "up")

\* the call of caller c missed the cache and has not returned
InFlight(c) == rd.calls[c].pc \in {"fetching", "fetched"}

\* C37: of two callers of get_packages of one type that both missed the
\* cache and are in progress together, only one performs the upstream fetch
\* (they are never both holding packages they fetched themselves).
C37_SingleFetchOnConcurrentMiss ==
    \A c1, c2 \in Callers :
       (/\ c1 # c2
        /\ rd.calls[c1].package_type = rd.calls[c2].package_type
        /\ InFlight(c1)
        /\ InFlight(c2)) =>
          ~(rd.calls[c1].pc = "fetched" /\ rd.calls[c2].pc = "fetched")

\* What holds is that every call that misses fetches for itself: a call is
\* given a value from the cache or the value of its own fetch, never that of
\* the fetch of another call in progress.
EachMissFetches ==
    [][\A c \in Callers :
          (rd.calls[c].pc = "fetching" /\ rd'.calls[c] # rd.calls[c]) =>
             /\ last'.op = "with_fallback"
             /\ rd'.calls[c].pc \in {"fetched", "done"}
             /\ rd'.calls[c].pc = "done" => ~rd'.calls[c].result[1].ok]_vars

-----------------------------------------------------------------------------
(* SpecSmall: a cache of capacity SmallCap, below 10, under                 *)
(* LeastRecentlyUsed, LeastFrequentlyUsed and FirstInFirstOut, written     *)
(* with more keys than its capacity.                                       *)

\* the strategies that evict a tenth of the capacity
BatchStrategies == {"LeastRecentlyUsed", "LeastFrequentlyUsed", "FirstInFirstOut"}

\* more keys than the capacity
SmallKeys == {KeyOf(i) : i \in 1..(SmallCap + 1)}

InitSmall ==
    /\ NoRetry
    /\ NoFallback
    /\ NoService
    /\ NoRefresh
    /\ NoReads
    /\ NoPending
    /\ NoPrefetch
    /\ \E s \in BatchStrategies :
          config = [default_ttl |-> DefaultTtl, max_entries |-> SmallCap, strategy |-> s]
    /\ storage = <<>>
    /\ now = 0
    /\ last = [op |-> "new", key |-> None, arg |-> None, ret |-> None, note |-> "Ok"]

NextSmall ==
    \/ \E k \in SmallKeys : Set(k, "l1", Some(TtlLong))
    \/ \E k \in SmallKeys : Get(k, "Value")
    \/ Tick(MaxTime)

SpecSmall == InitSmall /\ [][NextSmall]_vars

\* a step that completes a successful set of a key that was not stored, on a cache of capacity below 10 that holds max_entries
\* entries
SetsNewKeyAtSmallCapacity ==
    /\ last'.op = "set"
    /\ last'.note = "Ok"
    /\ last'.key \notin DOMAIN storage
    /\ config.strategy \in BatchStrategies
    /\ config.max_entries < 10
    /\ Cardinality(DOMAIN storage) = config.max_entries

\* C34: with max_entries < 10, a set of a new key issued when the store
\* holds max_entries entries removes at least one entry before it inserts,
\* and the store does not grow beyond max_entries.
C34_BatchAtLeastOne ==
    [][SetsNewKeyAtSmallCapacity =>
          /\ DOMAIN storage \ DOMAIN storage' # {}
          /\ Cardinality(DOMAIN storage') <= config.max_entries]_vars

\* What such a set does is remove nothing and store the new entry with the
\* others: this holds.
SmallCapacityEvictsNothing ==
    [][SetsNewKeyAtSmallCapacity =>
          /\ \A k \in DOMAIN storage : k \in DOMAIN storage' /\ storage'[k] = storage[k]
          /\ DOMAIN storage' = DOMAIN storage \cup {last'.key}
          /\ Cardinality(DOMAIN storage') = config.max_entries + 1]_vars

-----------------------------------------------------------------------------
(* SpecExpiry: get and the sweep followed from the test of is_expired to    *)
(* the removal, with writes in between.  get tests the entry under the     *)
(* guard of get_mut, drops the guard and then removes by key; a round of   *)
(* the sweep collects the keys of the expired entries and then removes    *)
(* each by key.  The map is shared by the threads of the runtime.          *)

\* get::<T>(key) finds the entry expired and drops its guard
GetFindsExpired(key, T) ==
    /\ GetOutcome(storage, key, T, now).note = "expired"
    /\ key \notin pending.get
    /\ pending' = [pending EXCEPT !.get = @ \cup {key}]
    /\ last' = [op |-> "is_expired", key |-> key, arg |-> T, ret |-> None,
                note |-> "expired"]
    /\ UNCHANGED <<config, storage, now, overflow_checks, retry, fb, svc, pf, bg, rd>>

\* mutant: the removal is made only if what is stored has expired
remove_key_IfExpired(st, ks, t) == Remove(st, {k \in ks \cap DOMAIN st : is_expired(st[k], t)})

\* self.storage.remove(key) for each of the keys ks, at time t
remove_key(st, ks, t) == Remove(st, ks)

\* that get removes the key and returns None
GetRemoves(key) ==
    /\ key \in pending.get
    /\ storage' = remove_key(storage, {key}, now)
    /\ pending' = [pending EXCEPT !.get = @ \ {key}]
    /\ last' = [op |-> "get", key |-> key, arg |-> None, ret |-> None, note |-> "expired"]
    /\ UNCHANGED <<config, now, overflow_checks, retry, fb, svc, pf, bg, rd>>

\* a round of the sweep collects expired_keys
SweepCollects ==
    /\ pending.sweep = None
    /\ pending' = [pending EXCEPT !.sweep = Some(get_expired_entries(storage, now))]
    /\ last' = [op |-> "expired_keys", key |-> None, arg |-> None, ret |-> None,
                note |-> "Ok"]
    /\ UNCHANGED <<config, storage, now, overflow_checks, retry, fb, svc, pf, bg, rd>>

\* the round removes the keys it collected
SweepRemoves ==
    /\ pending.sweep # None
    /\ storage' = remove_key(storage, pending.sweep[1], now)
    /\ pending' = [pending EXCEPT !.sweep = None]
    /\ last' = [op |-> "sweep", key |-> None, arg |-> None,
                ret |-> Some(Cardinality(pending.sweep[1])), note |-> "Ok"]
    /\ UNCHANGED <<config, now, overflow_checks, retry, fb, svc, pf, bg, rd>>

\* a get that finds no entry, or one that has not expired
GetUnexpired(key, T) ==
    /\ GetOutcome(storage, key, T, now).note # "expired"
    /\ Get(key, T)

InitExpiry ==
    NewCache([default_ttl |-> DefaultTtl, max_entries |-> DefaultMaxEntries,
              strategy |-> "LeastRecentlyUsed"])

NextExpiry ==
    \/ \E k \in KeysAB : GetFindsExpired(k, "Value")
    \/ \E k \in KeysAB : GetRemoves(k)
    \/ \E k \in KeysAB : GetUnexpired(k, "Value")
    \/ SweepCollects
    \/ SweepRemoves
    \/ \E k \in KeysAB, t \in SweepTtls : Set(k, "l1", t)
    \/ Tick(MaxTime)

SpecExpiry == InitExpiry /\ [][NextExpiry]_vars

\* the step is the removal of a get that found its entry expired, or of a
\* round of the sweep
ExpiryRemoves == last'.op \in {"get", "sweep"} /\ last'.note \in {"expired", "Ok"} /\ pending' # pending

\* C35: the removal of get and of the sweep removes only entries that have
\* expired: an entry that set stored after the test, and that has not
\* expired, is still in the cache after the removal.
C35_RemovesExpiredOnly ==
    [][ExpiryRemoves =>
          \A k \in DOMAIN storage :
             ~is_expired(storage[k], now) =>
                k \in DOMAIN storage' /\ storage'[k] = storage[k]]_vars

\* What the removal removes is whatever is stored under the keys that were
\* found expired, and nothing else: this holds.
RemovesTheKeysFound ==
    [][ExpiryRemoves =>
          LET ks == IF last'.op = "get" THEN {last'.key} ELSE pending.sweep[1]
          IN  storage' = Remove(storage, ks)]_vars

-----------------------------------------------------------------------------
(* SpecCapacity: a cache of capacity EvictCap under LeastRecentlyUsed,      *)
(* LeastFrequentlyUsed and FirstInFirstOut, one entry short of its         *)
(* capacity, with writes and background refreshes of new keys, reads,      *)
(* invalidations and the sweep.                                            *)

InitCapacity ==
    /\ NoRetry
    /\ NoFallback
    /\ NoService
    /\ NoRefresh
    /\ NoReads
    /\ NoPending
    /\ NoPrefetch
    /\ \E s \in BatchStrategies :
          config = [default_ttl |-> DefaultTtl, max_entries |-> EvictCap, strategy |-> s]
    /\ storage = [k \in {KeyOf(i) : i \in 1..(EvictCap - 1)} |->
                     LET i == CHOOSE j \in 1..(EvictCap - 1) : KeyOf(j) = k
                     IN  [NewEntry("l1", EvictTtl(FALSE, i), <<>>, i - 1)
                             EXCEPT !.access_count = i - 1]]
    /\ now = EvictCap - 1
    /\ last = [op |-> "new", key |-> None, arg |-> None, ret |-> None, note |-> "Ok"]

\* the keys written while the cache is at its capacity: new ones
CapacityKeys == {KeyOf(EvictCap + 1), KeyOf(EvictCap + 2)}

NextCapacity ==
    \/ \E k \in CapacityKeys : Set(k, "o1", Some(TtlLong))
    \/ \E k \in CapacityKeys : SetWithTags(k, "o1", Some(TtlLong), <<TagX>>)
    \/ \E k \in CapacityKeys : RefreshInBackground(k, MaxRefreshes)
    \/ \E i \in 1..MaxRefreshes : i <= Len(bg) /\ RefreshFnInvoked(i)
    \/ \E i \in 1..MaxRefreshes : i <= Len(bg) /\ RefreshFnReturns(i, Ok("o1"))
    \/ Get(KeyOf(1), "Value")
    \/ \E k \in CapacityKeys : Invalidate(k)
    \/ Sweep
    \/ Tick(EvictCap)

SpecCapacity == InitCapacity /\ [][NextCapacity]_vars

\* C36: under LeastRecentlyUsed, LeastFrequentlyUsed or FirstInFirstOut with
\* max_entries >= 10, the number of stored entries never exceeds
\* max_entries.
C36_CapacityInvariant ==
    (config.strategy \in BatchStrategies /\ config.max_entries >= 10) =>
       Cardinality(DOMAIN storage) <= config.max_entries

\* What holds, each set running from its test of the size to its insert
\* with no other write in between, is that the only step that takes the
\* size from within the capacity to beyond it is the store of a background
\* refresh.
OnlyRefreshOutgrows ==
    [][(/\ Cardinality(DOMAIN storage) <= config.max_entries
        /\ Cardinality(DOMAIN storage') > config.max_entries) =>
          last'.op = "refresh_task"]_vars

-----------------------------------------------------------------------------
(* The tags of an entry across a background refresh, under SpecRefresh.     *)

\* the task of position i stores the value of a successful refresh over an
\* entry of its key, in this step
RefreshReplaces(i) ==
    /\ i \in DOMAIN bg
    /\ RefreshEnds(i)
    /\ bg'[i].outcome[1].ok
    /\ bg'[i].outcome[1].value # Unserializable
    /\ bg[i].key \in DOMAIN storage

\* C39: the entry a successful background refresh of key k stores has the
\* tags the entry of k had before, so that invalidate_by_tags with one of
\* them still selects k.
C39_RefreshKeepsTags ==
    [][\A i \in 1..MaxRefreshes :
          RefreshReplaces(i) =>
             /\ storage'[bg[i].key].tags = storage[bg[i].key].tags
             /\ \A tags \in TagLists :
                   TagsIntersect(storage[bg[i].key].tags, tags) =>
                      TagsIntersect(storage'[bg[i].key].tags, tags)]_vars

\* What the refresh stores is an entry with no tag, which
\* invalidate_by_tags selects for no list of tags: this holds.
RefreshDropsTags ==
    [][\A i \in 1..MaxRefreshes :
          RefreshReplaces(i) =>
             /\ storage'[bg[i].key].tags = <<>>
             /\ \A tags \in TagLists : ~TagsIntersect(storage'[bg[i].key].tags, tags)]_vars

-----------------------------------------------------------------------------
(* SpecFrame: the mutating operations on a cache that holds listings,       *)
(* search results and the details of several packages, one of them named   *)
(* "search_x".                                                             *)

SearchyName == SearchPattern \o <<"x">>

\* the reads whose results the cache may hold
FrameFilledBy ==
    FilledBy \cup {<<"get_package_details", "Cask", <<"g">>>>,
                   <<"get_package_details", "Formula", SearchyName>>,
                   <<"get_package_details", "Cask", SearchyName>>}

InitFrame ==
    /\ NoRetry
    /\ NoFallback
    /\ NoService
    /\ NoRefresh
    /\ NoReads
    /\ NoPending
    /\ NoPrefetch
    /\ config = [default_ttl |-> DefaultConfigTtl, max_entries |-> DefaultMaxEntries,
                 strategy |-> "LeastRecentlyUsed"]
    /\ \E C \in SUBSET FrameFilledBy : storage = FilledStorage(C)
    /\ now = 0
    /\ last = [op |-> "new", key |-> None, arg |-> None, ret |-> None, note |-> "Ok"]

NextFrame ==
    \E op \in MutatingOps, pt \in PackageTypes, name \in {<<"g">>, SearchyName},
       mode \in {"up", "failing"} :
       Mutate(op, pt, name, mode)

SpecFrame == InitFrame /\ [][NextFrame]_vars

\* a step in which a mutating operation returns success = true
MutationSucceeds ==
    /\ MutationReturns
    /\ svc'.result[1].ok
    /\ svc'.result[1].value.success

\* C38: a successful install, uninstall or update of (name, kind) leaves
\* every entry but the detail entry of (kind, name), the listing of kind and
\* the search results present and unchanged: the details of every other
\* package and the listing of the other kind.
C38_MutationFrame ==
    [][MutationSucceeds =>
          \A k \in DOMAIN storage :
             (/\ k # DetailsKey(svc'.package_type, svc'.arg)
              /\ k # ListingKey(svc'.package_type)
              /\ ~IsSearchKey(k)) =>
                k \in DOMAIN storage' /\ storage'[k] = storage[k]]_vars

\* What stays is every entry but those two whose key does not contain
\* "search_"; the details of a package whose name contains "search_" go
\* with the search results: this holds.
MutationFrameOfPattern ==
    [][MutationSucceeds =>
          /\ \A k \in DOMAIN storage :
                (/\ k # DetailsKey(svc'.package_type, svc'.arg)
                 /\ k # ListingKey(svc'.package_type)
                 /\ ~Contains(k, SearchPattern)) =>
                   k \in DOMAIN storage' /\ storage'[k] = storage[k]
          /\ \A pt \in PackageTypes :
                DetailsKey(pt, SearchyName) \notin DOMAIN storage']_vars

-----------------------------------------------------------------------------
(* SpecConserve: the four activities on one PrefetchService, each slot      *)
(* called once; the catalog answers, or the network is down and the local  *)
(* tool answers (its listing has no popular package) or cannot be run.     *)

ConserveSlots == 1..DefaultMaxConcurrent

\* the catalog and the local tool during one call of the facade
ConserveUpstreams == {<<"catalog", "up">>, <<"NetworkError", "up">>,
                      <<"NetworkError", "down">>}

InitConserve == InitPrefetchService(ConserveSlots)

NextConserve ==
    \/ \E i \in ConserveSlots, pt \in CalledTypes :
          NextSlot(i) /\ PrefetchPopularPackages(i, pt)
    \/ \E i \in ConserveSlots, name \in Names, pt \in CalledTypes :
          NextSlot(i) /\ PrefetchRelatedPackages(i, name, pt)
    \/ \E i \in ConserveSlots : NextSlot(i) /\ BackgroundRefreshStaleData(i)
    \/ \E i \in ConserveSlots : TakeLock(i)
    \/ \E i \in ConserveSlots : Acquire(i)
    \/ \E i \in ConserveSlots : ChecksListing(i)
    \/ \E i \in ConserveSlots : Calls(i)
    \/ \E i \in ConserveSlots, u \in ConserveUpstreams : Returns(i, u[1], u[2], 0)
    \/ \E i \in ConserveSlots : Finishes(i)

SpecConserve == InitConserve /\ [][NextConserve]_vars

\* C40: the permits the activities hold and the permits available add up to
\* the size the semaphore was made with; an activity that has returned
\* holds none, and when no activity is in progress all are available.
C40_PermitConservation ==
    /\ Cardinality(Holders(pf)) + pf.permits = DefaultMaxConcurrent
    /\ \A i \in DOMAIN pf.tasks : Free(i) => ~pf.tasks[i].holds
    /\ (\A i \in DOMAIN pf.tasks : Free(i)) => pf.permits = DefaultMaxConcurrent

\* three activities that each acquired a permit have returned: a popular
\* warm-up whose popular list was empty, a related warm-up whose package
\* could not be fetched and a background refresh that read the listing, and
\* all the permits are available
C40_Witness ==
    /\ \A i \in DOMAIN pf.tasks : pf.tasks[i].pc = "done" /\ pf.tasks[i].made > 0
    /\ \E i \in DOMAIN pf.tasks :
          /\ pf.tasks[i].activity = "popular"
          /\ pf.tasks[i].result[1].ok
          /\ pf.popular_packages_cache[pf.tasks[i].package_type] = Some(<<>>)
    /\ \E i \in DOMAIN pf.tasks :
          pf.tasks[i].activity = "related" /\ ~pf.tasks[i].result[1].ok
    /\ \E i \in DOMAIN pf.tasks : pf.tasks[i].activity = "background"
    /\ pf.permits = DefaultMaxConcurrent

-----------------------------------------------------------------------------
(* SpecLocks: the four activities with update_config and                    *)
(* update_network_conditions, followed at the locks.  The read-write lock  *)
(* of config is fair: a call of update_config waits in pf.writers for the  *)
(* readers that hold a guard to drop it, and a reader that comes while it  *)
(* waits goes after it.  The write guard of last_prefetch_time is pf.lock; *)
(* the write guard of popular_packages_cache is taken and dropped inside   *)
(* get_popular_packages, which only the holder of pf.lock runs; the guards *)
(* of network_conditions and stats are taken and dropped with no await in  *)
(* between.  SpecLocksFair adds that, while some call in progress can go   *)
(* on, one does: the runtime runs a task that is ready, a call of the      *)
(* facade returns, a lock or a permit that is free is given to a waiter.   *)

MaxUpdates == 1

\* update_config(new_config) is called and waits for the write guard
UpdateConfigWaits(new_config) ==
    /\ pf.updates < MaxUpdates
    /\ pf' = [pf EXCEPT !.writers = Append(@, new_config), !.updates = @ + 1]
    /\ last' = PfOther
    /\ UNCHANGED <<config, storage, now, retryVars, fb, svc, bg, rd, pending>>

\* the first call that waits gets the write guard, replaces the
\* configuration and returns
UpdateConfigWrites ==
    /\ pf.writers # <<>>
    /\ ConfigReaders = {}
    /\ pf' = [pf EXCEPT !.config = Head(pf.writers), !.writers = Tail(@)]
    /\ last' = PfOther
    /\ UNCHANGED <<config, storage, now, retryVars, fb, svc, bg, rd, pending>>

\* background_refresh_stale_data() is called: should_allow_prefetch, then
\* it waits for the read guard of config
BackgroundChecks(i) ==
    Enter(i, "background", "Low", "Formula", TRUE, "config",
          BothTypes("get_packages", None, "refresh"))

\* predictive_prefetch(user_patterns) is called: should_allow_prefetch, then
\* it waits for the read guard of config
PredictiveChecks(i, user_patterns) ==
    Enter(i, "predictive", "Low", "Formula", TRUE, "config",
          Searches(Take(user_patterns, PatternTake)))

\* the activity gets the read guard of config and reads its switch: it goes
\* on, keeping the guard, or returns Ok(())
ReadsConfig(i) ==
    LET t == pf.tasks[i]
        switch == IF t.activity = "background"
                  THEN pf.config.background_refresh_enabled
                  ELSE pf.config.predictive_enabled
    IN  /\ t.pc = "config"
        /\ ConfigReadable
        /\ pf' = [pf EXCEPT !.tasks[i] =
                     IF switch THEN [t EXCEPT !.pc = "ready"]
                     ELSE [t EXCEPT !.pc = "done", !.todo = <<>>,
                                    !.result = Some(Ok("unit"))]]
        /\ last' = PfOther
        /\ UNCHANGED <<config, storage, now, retryVars, fb, svc, bg, rd, pending>>

\* the configurations update_config is called with
LockConfigs == {[DefaultPrefetchConfig EXCEPT !.predictive_enabled = FALSE]}

\* the report update_network_conditions is called with
LockReports ==
    {[connection_type |-> "wifi", effective_type |-> "3g", save_data |-> FALSE]}

\* the listing of the formulae has been read
InitLocks ==
    /\ NoRetry
    /\ NoFallback
    /\ NoService
    /\ NoRefresh
    /\ NoReads
    /\ NoPending
    /\ config = [default_ttl |-> DefaultConfigTtl, max_entries |-> DefaultMaxEntries,
                 strategy |-> "LeastRecentlyUsed"]
    /\ storage = FilledStorage({<<"get_packages", "Formula", None>>})
    /\ now = 0
    /\ pf = NewPrefetch(PermitSlots)
    /\ last = PfOther

\* one step of the activity of slot i after its entry; the network is down
\* and the local tool cannot be run, so that only the listing, which is in
\* the cache, is read with success
Advances(i) ==
    \/ ReadsConfig(i)
    \/ TakeLock(i)
    \/ Acquire(i)
    \/ ChecksListing(i)
    \/ Calls(i)
    \/ Returns(i, "NetworkError", "down", 0)
    \/ Finishes(i)

\* slot i has not been called
Uncalled(i) == pf.tasks[i].pc = "idle"

\* slot 1 is a background refresh or a predictive prefetch, slot 2 a popular
\* warm-up, slot 3 a related warm-up, slot 4 a related or a popular warm-up
NextLocks ==
    \/ Uncalled(1) /\ BackgroundChecks(1)
    \/ \E ps \in PermitPatterns : Uncalled(1) /\ PredictiveChecks(1, ps)
    \/ \E i \in {2, 4}, pt \in CalledTypes :
          Uncalled(i) /\ PrefetchPopularPackages(i, pt)
    \/ \E i \in {3, 4}, name \in Names, pt \in CalledTypes :
          Uncalled(i) /\ PrefetchRelatedPackages(i, name, pt)
    \/ \E c \in LockConfigs : UpdateConfigWaits(c)
    \/ UpdateConfigWrites
    \/ \E r \in LockReports : pf.network = None /\ UpdateNetworkConditions(r)
    \/ \E i \in PermitSlots : Advances(i)

SpecLocks == InitLocks /\ [][NextLocks]_vars

\* a step of a call in progress: of an activity, or of update_config
Progress == UpdateConfigWrites \/ \E i \in PermitSlots : Advances(i)

SpecLocksFair == SpecLocks /\ WF_vars(Progress)

\* the activity of slot i has been called and has not returned
InProgress(i) == pf.tasks[i].pc \notin {"idle", "done"}

\* no activity is in progress and no call of update_config waits
Quiet == (\A i \in PermitSlots : ~InProgress(i)) /\ pf.writers = <<>>

\* C33: every activity that was called returns, and every call of
\* update_config that waits for the write guard gets it and returns: no
\* activity and no update is blocked for ever on the lock of config, the
\* lock of last_prefetch_time, the lock of popular_packages_cache or the
\* semaphore.
C33_NoIndefiniteBlocking == <>[]Quiet

\* a background refresh holds the read guard of config and waits for a
\* permit, the three permits being held; update_config waits for the write
\* guard; the popular warm-up, which holds a permit and the write guards of
\* last_prefetch_time and popular_packages_cache, waits behind it for the
\* read guard of config
C33_Witness ==
    /\ pf.writers # <<>>
    /\ pf.permits = 0
    /\ pf.tasks[1].activity = "background"
    /\ pf.tasks[1].pc = "acquire"
    /\ pf.lock = 2
    /\ pf.tasks[2].holds
    /\ pf.tasks[2].pc = "calling"
    /\ pf.tasks[2].current[1].role = "list"
    /\ pf.tasks[3].holds
    /\ pf.tasks[4].holds

====
